---- MODULE Spec2Model ----
(***************************************************************************)
(* The ledger host of abarreal/distros-tp1: the block repository (by-minute*)
(* files, hash index, head file, in-memory head), the Blockchain object    *)
(* that serialises writes and adapts the difficulty, and the handlers of   *)
(* the write port and of the read port.                                    *)
(*                                                                         *)
(* A Big32 is kept as the natural number its bytes spell (big-endian); the *)
(* model keeps Big32Len bytes of the 32.  A block is the record of its     *)
(* frame hash and of the header fields of its payload.  The block codec's  *)
(* ReadBlock takes the frame hash as the block's hash without recomputing  *)
(* it, so the hash of a block received on the write port is an input.      *)
(***************************************************************************)
EXTENDS Integers, Sequences, FiniteSets, TLC

\* ------------------------------------------------------------------ bounds
Big32Len == 2
MaxWrites == 2
MaxIOFailures == 1
QueueCapacity == 2
ChunkThreshold == 2
MinerCount == 2
MaxPushes == 4
TaskCount == 3

\* ------------------------------------------------------- program constants
ByteBase == 256
DifficultyPeriod == 256
DifficultyFactor == 3072
HeaderLength == 105
MetadataLength == 4 + 32

RECURSIVE Pow(_, _)
Pow(b, n) == IF n = 0 THEN 1 ELSE b * Pow(b, n - 1)

\* The number of values of a Big32 (2^256 in the program).
Big32Modulus == Pow(ByteBase, Big32Len)

Zero == 0
One == 1

\* hash.Bytes[0]: the most significant byte.
FirstByte(hash) == hash \div Pow(ByteBase, Big32Len - 1)

\* ------------------------------------------------------------ input pools
HighByte == (ByteBase - 1) * Pow(ByteBase, Big32Len - 1)
UnknownHash == 3
HashPool == {1, 2}
PrevPool == HashPool \cup {Zero}
TimePool == {30, 3630}
DifficultyPool == {Zero, One, DifficultyFactor}
ClockPool == {0, DifficultyFactor}
HashQueries == {2, UnknownHash}
TimeQueries == {45, 3630}

Block == [hash : HashPool, prev : PrevPool, ts : TimePool, diff : DifficultyPool]
NoBlock == [hash |-> Zero, prev |-> Zero, ts |-> -1, diff |-> Zero]
\* A sample of the blocks sent to the write port that fail a check.
RejectPool == [hash : {1, HighByte + 1}, prev : {Zero, 2}, ts : {30, 3630},
               diff : {One, DifficultyFactor}]

\* --------------------------------------------------------------- the codec
\* The blocks of the model carry no entries: the payload is the header.
DataLength(block) == HeaderLength
LenghtWithMetadata(block) == MetadataLength + DataLength(block)

\* "the hash is below the quotient of 2^256 by the difficulty"
IsHashBelowQuotient(block) ==
    \/ block.diff = Zero
    \/ block.hash < Big32Modulus \div block.diff

\* "the hash, as a number, times the difficulty is below 2^256"
IsHashValidForDifficulty(block) ==
    \/ block.diff = Zero
    \/ block.hash <= (Big32Modulus - 1) \div block.diff

\* ------------------------------------------------------------- file names
\* time.Unix(ts, 0).UTC(): the civil date stands as its day number.
Date(ts) == ts \div 86400
Hour(ts) == (ts \div 3600) % 24
Minute(ts) == (ts \div 60) % 60

getFilenameForTime(ts) == <<Date(ts), Hour(ts), Minute(ts)>>
getFilename(block) == getFilenameForTime(block.ts)
getIndexPathForHash(hash) == FirstByte(hash)

FileNames == {getFilenameForTime(t) : t \in TimePool}
IndexNames == {getIndexPathForHash(h) : h \in HashPool \cup {UnknownHash, HighByte}}
NoFilename == <<>>

VARIABLES
    blockFiles, indexFiles, headFile,
    previousBlockHash, previousBlockTimestamp, previousBlockDifficulty,
    currentDifficulty, lastWrite, minedCount,
    wpc, cur, fpos, newDifficulty, writeTime, err, reqHead, wresp,
    readResp, crashed,
    admitted, bodyLog, writes, ioFailures

\* The call of computeDifficulty taken alone: where the call stands, and the
\* inputs and the result of the call before it.
VARIABLES dcall, prevCall

difficultyCall == <<dcall, prevCall>>

\* The gateway: the chunk queue and its clients, the block packer, the two
\* channels between the packer and the block writer, the block writer, its
\* miners, the blockchain middleware, and the ledger host as the middleware
\* sees it (the blocks it admitted, its current difficulty).
VARIABLES
    chunks, count, notifications, lock,
    pushed, pushResp,
    ppc, ignoreThreshold, isDownstreamReady, packerPreviousHash,
    packerDifficulty, pblock, popped,
    blockChannel, updateChannel,
    writerState, writerStep, writerIndex, currentMiningRequest,
    responseChannel, blockResponse,
    minerState, minerRequest,
    mwPreviousHash, mwDifficulty,
    chain, chainDifficulty,
    acceptedChunks, packed

chunkQueue == <<chunks, count, notifications, lock>>
clients == <<pushed, pushResp>>
packer == <<ppc, ignoreThreshold, isDownstreamReady, packerPreviousHash,
            packerDifficulty, pblock, popped>>
channels == <<blockChannel, updateChannel>>
blockWriter == <<writerState, writerStep, writerIndex, currentMiningRequest,
                 responseChannel, blockResponse>>
miners == <<minerState, minerRequest>>
middleware == <<mwPreviousHash, mwDifficulty>>
ledgerSeen == <<chain, chainDifficulty>>
gatewayGhosts == <<acceptedChunks, packed>>
VARIABLES
    svcStep, packerControl, packerStopping, writerStopping, quitIndex,
    minerStopping, writerDone
shutdown == <<svcStep, packerControl, packerStopping, writerStopping, quitIndex,
              minerStopping, writerDone>>
running == <<chunkQueue, clients, packer, channels, blockWriter, miners,
             middleware, ledgerSeen, gatewayGhosts>>
gateway == <<running, shutdown>>

\* A Block object of package blockchain taken alone: the arguments given to
\* CreateBlock, the block built from them (its buffer, its memoized hash and
\* its dirty flag), the bytes WriteWithMetadata wrote, the block ReadBlock
\* made of them, the last operation, the results of Hash since the last
\* mutation (two at most are kept), and whether a mutation came after a
\* hash was memoized.
VARIABLES
    givenChunks, givenPreviousHash, givenDifficulty,
    subject, stream, block2, bop, hashes, invalidated

blockHarness == <<givenChunks, givenPreviousHash, givenDifficulty,
                  subject, stream, block2, bop, hashes, invalidated>>

\* The packages used by both programs, taken alone.
VARIABLES
    written, wire, received, mop
messageHarness == <<written, wire, received, mop>>
VARIABLES
    filelocks, filelocksMutex, mutexes, tpc, tpath, tlock, raced
lockHarness == <<filelocks, filelocksMutex, mutexes, tpc, tpath, tlock, raced>>

\* The validity of a hash at a difficulty, taken alone: the block whose hash
\* is tested, where the call stands, its result, and the difficulty and the
\* result of the call before it on a block of the same hash.
VARIABLES candidate, vpc, isValid, previousAttempt
validityHarness == <<candidate, vpc, isValid, previousAttempt>>
library == <<blockHarness, messageHarness, lockHarness, validityHarness>>

\* What the actions of the ledger host leave alone.
outsideLedgerHost == <<difficultyCall, gateway, library>>

files == <<blockFiles, indexFiles, headFile>>
repoHead == <<previousBlockHash, previousBlockTimestamp, previousBlockDifficulty>>
chainState == <<currentDifficulty, lastWrite, minedCount>>
ledger == <<files, repoHead, chainState>>
writer == <<wpc, cur, fpos, newDifficulty, writeTime, err, reqHead, wresp>>
ghosts == <<admitted, bodyLog, writes, ioFailures>>
vars == <<ledger, writer, readResp, crashed, ghosts, outsideLedgerHost>>

\* What the actions of the gateway leave alone.
outsideGateway == <<ledger, writer, readResp, crashed, ghosts, difficultyCall,
                    library, shutdown>>

\* What the operations of a library package leave alone.
outsideShutdown == <<running, ledger, writer, readResp, crashed, ghosts,
                     difficultyCall, library>>
outsideLibrary == <<ledger, writer, readResp, crashed, ghosts, difficultyCall,
                    gateway>>
outsideBlock == <<outsideLibrary, messageHarness, lockHarness, validityHarness>>
outsideMessage == <<outsideLibrary, blockHarness, lockHarness, validityHarness>>
outsideLock == <<outsideLibrary, blockHarness, messageHarness, validityHarness>>
outsideValidity == <<outsideLibrary, blockHarness, messageHarness, lockHarness>>

\* time.Now() as CreateBlockchain reads it: the clock counts from the boot.
BootTime == 0

NoHead == [hash |-> Zero, diff |-> Zero, ts |-> -1]
NoResponse == [kind |-> "none"]

NoCall == [diff |-> Zero, elapsed |-> -1, count |-> -1, new |-> Zero]

\* No call of computeDifficulty is followed apart from the ledger host.
DifficultyCallOff ==
    /\ dcall = "off"
    /\ prevCall = NoCall

\* A block of the gateway: the header fields the packer sets, the chunks in
\* their order, the nonce (0 until a miner sets it).
NoCandidate == [prev |-> Zero, diff |-> Zero, entries |-> <<>>, nonce |-> 0]
NoPush == [chunk |-> 0, accepted |-> FALSE]
Miners == 1..MinerCount

\* CreateChunkQueue, CreateBlockPacker, CreateBlockWriter with CreateMiner,
\* and middleware.CreateBlockchain, whose initializeMiningInfo asks the
\* freshly booted ledger host for its mining information.
GatewayBoot ==
    /\ chunks = <<>>
    /\ count = 0
    /\ notifications = 0
    /\ lock = "free"
    /\ pushed = 0
    /\ pushResp = NoPush
    /\ ppc = "select"
    /\ ignoreThreshold = FALSE
    /\ isDownstreamReady = FALSE
    /\ packerPreviousHash = Zero
    /\ packerDifficulty = Zero
    /\ pblock = NoCandidate
    /\ popped = <<>>
    /\ blockChannel = <<>>
    /\ updateChannel = <<>>
    /\ writerState = "Booting"
    /\ writerStep = "loop"
    /\ writerIndex = 0
    /\ currentMiningRequest = NoCandidate
    /\ responseChannel = <<>>
    /\ blockResponse = NoResponse
    /\ minerState = [m \in Miners |-> "Idle"]
    /\ minerRequest = [m \in Miners |-> NoCandidate]
    /\ mwPreviousHash = Zero
    /\ mwDifficulty = One
    /\ chain = <<>>
    /\ chainDifficulty = One
    /\ acceptedChunks = <<>>
    /\ packed = <<>>
    /\ svcStep = "running"
    /\ packerControl = 0
    /\ packerStopping = FALSE
    /\ writerStopping = FALSE
    /\ quitIndex = 0
    /\ minerStopping = [m \in Miners |-> FALSE]
    /\ writerDone = FALSE

\* A Block object: nil until CreateBlock returns one.
NoBlockObject == [buffer |-> <<>>, hash |-> Zero, bufferDirty |-> FALSE]

\* No Block object is followed apart from the programs.
BlockHarnessOff ==
    /\ givenChunks = <<>>
    /\ givenPreviousHash = Zero
    /\ givenDifficulty = Zero
    /\ subject = NoBlockObject
    /\ stream = <<>>
    /\ block2 = NoBlockObject
    /\ bop = "off"
    /\ hashes = <<>>
    /\ invalidated = FALSE

NoMessage == [opcode |-> 0, datalen |-> 0, data |-> <<>>, block |-> NoBlockObject]
MessageHarnessOff ==
    /\ written = NoMessage
    /\ wire = <<>>
    /\ received = [err |-> FALSE, msg |-> NoMessage]
    /\ mop = "off"
LockHarnessOff ==
    /\ filelocks = <<>>
    /\ filelocksMutex = [writer |-> 0, readers |-> {}]
    /\ mutexes = <<>>
    /\ tpc = <<>>
    /\ tpath = <<>>
    /\ tlock = <<>>
    /\ raced = FALSE
NoAttempt == [made |-> FALSE, diff |-> Zero, valid |-> FALSE]
ValidityHarnessOff ==
    /\ candidate = NoBlock
    /\ vpc = "off"
    /\ isValid = FALSE
    /\ previousAttempt = NoAttempt
LibraryOff ==
    /\ BlockHarnessOff
    /\ MessageHarnessOff
    /\ LockHarnessOff
    /\ ValidityHarnessOff

\* CreateBlockRepository on an empty directory and CreateBlockchain.
LedgerHostBoot ==
    /\ blockFiles = [f \in FileNames |-> <<>>]
    /\ indexFiles = [i \in IndexNames |-> <<>>]
    /\ headFile = NoHead
    /\ previousBlockHash = Zero
    /\ previousBlockDifficulty = One
    /\ previousBlockTimestamp = 0
    /\ currentDifficulty = One
    /\ lastWrite = BootTime
    /\ minedCount = 0
    /\ wpc = "idle"
    /\ cur = NoBlock
    /\ fpos = 0
    /\ newDifficulty = Zero
    /\ writeTime = 0
    /\ err = "none"
    /\ reqHead = [hash |-> Zero, diff |-> One]
    /\ wresp = NoResponse
    /\ readResp = NoResponse
    /\ crashed = FALSE
    /\ admitted = <<>>
    /\ bodyLog = <<>>
    /\ writes = 0
    /\ ioFailures = 0

Init ==
    /\ LedgerHostBoot
    /\ DifficultyCallOff
    /\ GatewayBoot
    /\ LibraryOff

\* ------------------------------------------------------- the write path
ValidationErrors == {"difficulty", "hashvalue", "prevhash", "older"}

\* validateBlock without the comparison of the previous hash.
validateBlockNoChain(block) ==
    IF previousBlockTimestamp > block.ts THEN "older" ELSE "none"

\* repository.validateBlock
validateBlock(block) ==
    IF previousBlockHash # block.prev THEN "prevhash"
    ELSE IF previousBlockTimestamp > block.ts THEN "older"
    ELSE "none"

\* The difficulty check left out.
DifficultyMatchesAny(block) == TRUE

\* The checks of Blockchain.WriteBlock that precede the save.
DifficultyMatches(block) == block.diff = currentDifficulty

checkBlock(block) ==
    IF ~DifficultyMatches(block) THEN "difficulty"
    ELSE IF ~IsHashValidForDifficulty(block) THEN "hashvalue"
    ELSE validateBlock(block)

\* The difficulty computed anew at every block.
computeDifficultyEveryBlock(block) ==
    LET elapsed == writeTime - lastWrite
        deltaSeconds == IF elapsed = 0 THEN 1 ELSE elapsed
    IN (block.diff * DifficultyFactor) \div deltaSeconds

\* The quotient taken before the product.
computeDifficultyDividesFirst(block) ==
    IF minedCount % DifficultyPeriod # 0 THEN block.diff
    ELSE LET elapsed == writeTime - lastWrite
             deltaSeconds == IF elapsed = 0 THEN 1 ELSE elapsed
         IN (block.diff \div deltaSeconds) * DifficultyFactor

\* The count compared after the increment: no update at the first block.
computeDifficultyCountedFirst(block) ==
    IF (minedCount + 1) % DifficultyPeriod # 0 THEN block.diff
    ELSE LET elapsed == writeTime - lastWrite
             deltaSeconds == IF elapsed = 0 THEN 1 ELSE elapsed
         IN (block.diff * DifficultyFactor) \div deltaSeconds

\* The closure computeDifficulty of Blockchain.WriteBlock, as the big.Int it
\* hands to FromBig.
computeDifficulty(block) ==
    IF minedCount % DifficultyPeriod # 0 THEN block.diff
    ELSE LET elapsed == writeTime - lastWrite
             deltaSeconds == IF elapsed = 0 THEN 1 ELSE elapsed
         IN (block.diff * DifficultyFactor) \div deltaSeconds

\* big32.FromBig copies b.Bytes() into buffer[32-len:32]: with more than 32
\* bytes the slice bound is negative and the call panics.
FromBigPanics(b) == b >= Big32Modulus

\* The byte offset at which frame k of a by-minute file starts.
RECURSIVE Offset(_, _)
Offset(file, k) ==
    IF k <= 1 THEN 0 ELSE Offset(file, k - 1) + LenghtWithMetadata(file[k - 1])

\* info.Size() of a by-minute file.
Size(file) == Offset(file, Len(file) + 1)

\* The head written before the index entry.
SaveOrderHeadFirst == <<"body", "head", "swap", "index", "commit">>

\* The order of the steps of BlockRepository.Save and of what follows it in
\* Blockchain.WriteBlock: body, index, head file, in-memory head, commit.
SaveOrder == <<"body", "index", "head", "swap", "commit">>

After(step) ==
    LET k == CHOOSE i \in 1..Len(SaveOrder) : SaveOrder[i] = step
    IN SaveOrder[k + 1]

CurrentPreviousHash == previousBlockHash

\* The difficulty of the head block taken for the current difficulty.
CurrentDifficultyOfHeadBlock == previousBlockDifficulty

CurrentDifficulty == currentDifficulty

\* message.CreateWriteBlockResponse
CreateWriteBlockResponse(accepted, newPreviousHash, difficulty) ==
    [kind |-> "WriteBlockResponse", accepted |-> accepted,
     new_prev_hash |-> newPreviousHash, new_difficulty |-> difficulty]

\* A rejection that counts the attempt as a mined block.
WriteRejectedCounts(block) ==
    /\ ~crashed
    /\ wpc = "idle"
    /\ checkBlock(block) # "none"
    /\ err' = checkBlock(block)
    /\ minedCount' = minedCount + 1
    /\ wresp' = CreateWriteBlockResponse(FALSE, CurrentPreviousHash,
                                         CurrentDifficulty)
    /\ UNCHANGED <<files, repoHead, currentDifficulty, lastWrite, wpc, cur,
                   fpos, newDifficulty, writeTime, reqHead, readResp, crashed,
                   ghosts>>
    /\ UNCHANGED outsideLedgerHost

\* handleWriteConnection reads a WriteBlock and calls Blockchain.WriteBlock;
\* the block fails a check of WriteBlock or of validateBlock, the error is
\* logged and the response carries the current head.
WriteRejected(block) ==
    /\ ~crashed
    /\ wpc = "idle"
    /\ checkBlock(block) # "none"
    /\ err' = checkBlock(block)
    /\ wresp' = CreateWriteBlockResponse(FALSE, CurrentPreviousHash,
                                         CurrentDifficulty)
    /\ UNCHANGED <<ledger, wpc, cur, fpos, newDifficulty, writeTime,
                   reqHead, readResp, crashed, ghosts>>
    /\ UNCHANGED outsideLedgerHost

\* The block passes the checks and BlockRepository.Save goes on to the files;
\* t is time.Now() as WriteBlock reads it, not before the last write.
WriteBegin(block, t) ==
    /\ ~crashed
    /\ wpc = "idle"
    /\ checkBlock(block) = "none"
    /\ writes < MaxWrites
    /\ writes' = writes + 1
    /\ cur' = block
    /\ t >= lastWrite
    /\ writeTime' = t
    /\ reqHead' = [hash |-> previousBlockHash, diff |-> currentDifficulty]
    /\ err' = "none"
    /\ wresp' = NoResponse
    /\ wpc' = SaveOrder[1]
    /\ UNCHANGED <<ledger, fpos, newDifficulty, readResp, crashed,
                   admitted, bodyLog, ioFailures>>
    /\ UNCHANGED outsideLedgerHost

\* The handler returns: its locals are gone.
Return ==
    /\ wpc' = "idle"
    /\ cur' = NoBlock
    /\ fpos' = 0
    /\ newDifficulty' = Zero
    /\ writeTime' = 0

\* An operation on a file fails (os.OpenFile or file.Sync returns an error):
\* Save and WriteBlock return it, handleWriteConnection answers accepted=0.
Fails(outcome) ==
    /\ outcome # "ok"
    /\ ioFailures < MaxIOFailures
    /\ ioFailures' = ioFailures + 1
    /\ err' = "io"
    /\ wresp' = CreateWriteBlockResponse(FALSE, CurrentPreviousHash,
                                         CurrentDifficulty)
    /\ Return

Succeeds(outcome, next) ==
    /\ outcome = "ok"
    /\ wpc' = next
    /\ UNCHANGED <<ioFailures, err, wresp, cur, writeTime>>

\* writeBlockToFile with the error of the open dropped: the save goes on
\* without the body.
WriteBodyIgnoresError(outcome) ==
    /\ ~crashed
    /\ wpc = "body"
    /\ LET name == getFilename(cur) IN
         IF outcome = "ok"
           THEN /\ blockFiles' = [blockFiles EXCEPT ![name] = Append(@, cur)]
                /\ bodyLog' = Append(bodyLog, cur)
                /\ ioFailures' = ioFailures
           ELSE /\ UNCHANGED <<blockFiles, bodyLog>>
                /\ ioFailures < MaxIOFailures
                /\ ioFailures' = ioFailures + 1
    /\ fpos' = Size(blockFiles[getFilename(cur)])
    /\ wpc' = After("body")
    /\ UNCHANGED <<indexFiles, headFile, repoHead, chainState, reqHead,
                   readResp, crashed, admitted, writes, newDifficulty, err,
                   wresp, cur, writeTime>>
    /\ UNCHANGED outsideLedgerHost

\* writeBlockToFile
WriteBody(outcome) ==
    /\ ~crashed
    /\ wpc = "body"
    /\ LET name == getFilename(cur) IN
         IF outcome = "ok"
           THEN /\ blockFiles' = [blockFiles EXCEPT ![name] = Append(@, cur)]
                /\ bodyLog' = Append(bodyLog, cur)
                /\ fpos' = Size(blockFiles[name])
                /\ newDifficulty' = newDifficulty
                /\ Succeeds(outcome, After("body"))
           ELSE /\ UNCHANGED <<blockFiles, bodyLog>>
                /\ Fails(outcome)
    /\ UNCHANGED <<indexFiles, headFile, repoHead, chainState, reqHead,
                   readResp, crashed, admitted, writes>>
    /\ UNCHANGED outsideLedgerHost

\* indexBlock
WriteIndex(outcome) ==
    /\ ~crashed
    /\ wpc = "index"
    /\ LET path == getIndexPathForHash(cur.hash)
           entry == [hash |-> cur.hash, pos |-> fpos, filename |-> getFilename(cur)]
       IN IF outcome = "openfail"
            THEN UNCHANGED indexFiles
            ELSE indexFiles' = [indexFiles EXCEPT ![path] = Append(@, entry)]
    /\ \/ Succeeds(outcome, After("index")) /\ UNCHANGED <<fpos, newDifficulty>>
       \/ Fails(outcome)
    /\ UNCHANGED <<blockFiles, headFile, repoHead, chainState, reqHead,
                   readResp, crashed, admitted, bodyLog, writes>>
    /\ UNCHANGED outsideLedgerHost

\* Save calls computeDifficulty, then updatePreviousBlockData writes the head
\* file.
WriteHead(outcome) ==
    /\ ~crashed
    /\ wpc = "head"
    /\ IF FromBigPanics(computeDifficulty(cur))
         THEN /\ outcome = "ok"
              /\ crashed' = TRUE
              /\ UNCHANGED <<headFile, newDifficulty, ioFailures, err, wpc,
                             wresp, cur, fpos, writeTime>>
         ELSE /\ crashed' = crashed
              /\ IF outcome = "openfail"
                   THEN UNCHANGED headFile
                   ELSE headFile' = [hash |-> cur.hash,
                                     diff |-> computeDifficulty(cur),
                                     ts |-> cur.ts]
              /\ \/ /\ Succeeds(outcome, After("head"))
                    /\ newDifficulty' = computeDifficulty(cur)
                    /\ fpos' = fpos
                 \/ Fails(outcome)
    /\ UNCHANGED <<blockFiles, indexFiles, repoHead, chainState, reqHead,
                   readResp, admitted, bodyLog, writes>>
    /\ UNCHANGED outsideLedgerHost

\* updatePreviousBlockData, after the head file: the in-memory head.
SwapHead ==
    /\ ~crashed
    /\ wpc = "swap"
    /\ previousBlockHash' = cur.hash
    /\ previousBlockDifficulty' = cur.diff
    /\ previousBlockTimestamp' = cur.ts
    /\ wpc' = After("swap")
    /\ UNCHANGED <<files, chainState, cur, fpos, newDifficulty, writeTime,
                   err, reqHead, wresp, readResp, crashed, ghosts>>
    /\ UNCHANGED outsideLedgerHost

\* Blockchain.WriteBlock after a successful Save, and the response of
\* handleWriteConnection.
Commit ==
    /\ ~crashed
    /\ wpc = "commit"
    /\ currentDifficulty' = newDifficulty
    /\ lastWrite' = writeTime
    /\ minedCount' = minedCount + 1
    /\ admitted' = Append(admitted, cur)
    /\ UNCHANGED <<files, repoHead, err, reqHead, readResp, crashed,
                   bodyLog, writes, ioFailures>>
    /\ wresp' = CreateWriteBlockResponse(TRUE, CurrentPreviousHash',
                                         CurrentDifficulty')
    /\ Return
    /\ UNCHANGED outsideLedgerHost

\* -------------------------------------------------------- the read path
NoEntry == [hash |-> Zero, pos |-> 0, filename |-> NoFilename]

\* blockchain.ReadBlock after file.Seek(pos, 0): the frame that starts at
\* pos, or nil (NoBlock) when reading there fails.
ReadBlockAt(file, pos) ==
    LET at == {k \in 1..Len(file) : Offset(file, k) = pos}
    IN IF at = {} THEN NoBlock ELSE file[CHOOSE k \in at : TRUE]

\* The scan of the index file in GetOneWithHash: the first entry whose hash
\* matches, or NoEntry (blockFilename stays "").
ScanIndex(index, hash) ==
    LET hits == {k \in 1..Len(index) : index[k].hash = hash}
    IN IF hits = {} THEN NoEntry
       ELSE index[CHOOSE k \in hits : \A j \in hits : k <= j]

\* BlockRepository.GetOneWithHash.  The index file is opened without
\* O_CREATE: a missing file is an error.  With no matching entry the path
\* of the block file is the blockchain directory itself, on which ReadBlock
\* fails, its error is dropped and the block stays nil.
GetOneWithHash(hash) ==
    LET index == indexFiles[getIndexPathForHash(hash)]
        entry == ScanIndex(index, hash)
    IN IF index = <<>> THEN [error |-> TRUE, block |-> NoBlock]
       ELSE IF entry = NoEntry THEN [error |-> FALSE, block |-> NoBlock]
       ELSE [error |-> FALSE,
             block |-> ReadBlockAt(blockFiles[entry.filename], entry.pos)]

\* The timestamps compared instead of their minutes.
SameSecond(ts, t) == ts = t

\* The comparison of (year, month, day, hour, minute) in GetBlocksFromMinute.
SameMinute(ts, t) ==
    /\ Date(ts) = Date(t)
    /\ Hour(ts) = Hour(t)
    /\ Minute(ts) = Minute(t)

\* BlockRepository.GetBlocksFromMinute
GetBlocksFromMinute(t) ==
    LET InMinute(block) == SameMinute(block.ts, t)
    IN SelectSeq(blockFiles[getFilenameForTime(t)], InMinute)

ReadResponse(kind, arg, sent, found, block, blocks) ==
    [kind |-> kind, arg |-> arg, sent |-> sent, found |-> found,
     block |-> block, blocks |-> blocks]

\* handleGetBlockWithHash: an error is logged and nothing is sent; with no
\* error the handler logs block.Hash(), which panics on a nil block.
handleGetBlockWithHash(hash) ==
    /\ ~crashed
    /\ LET r == GetOneWithHash(hash) IN
         IF r.error
           THEN /\ readResp' = ReadResponse("GetBlockByHash", hash, FALSE, FALSE,
                                            NoBlock, <<>>)
                /\ crashed' = crashed
           ELSE IF r.block = NoBlock
           THEN /\ readResp' = ReadResponse("GetBlockByHash", hash, FALSE, FALSE,
                                            NoBlock, <<>>)
                /\ crashed' = TRUE
           ELSE /\ readResp' = ReadResponse("GetBlockByHash", hash, TRUE, TRUE,
                                            r.block, <<>>)
                /\ crashed' = crashed
    /\ UNCHANGED <<ledger, writer, ghosts>>
    /\ UNCHANGED outsideLedgerHost

\* message.CreateGetMiningInfoResponse
CreateGetMiningInfoResponse(previousHash, difficulty) ==
    [kind |-> "GetMiningInfoResponse", prev_hash |-> previousHash,
     difficulty |-> difficulty]

\* The mining information taken from the head file instead of the memory.
handleGetMiningInfoFromHeadFile ==
    /\ ~crashed
    /\ readResp' = CreateGetMiningInfoResponse(headFile.hash, headFile.diff)
    /\ UNCHANGED <<ledger, writer, crashed, ghosts>>
    /\ UNCHANGED outsideLedgerHost

\* handleGetMiningInfo: the head hash, read under the lock of the repository,
\* and the current difficulty of the Blockchain object.
handleGetMiningInfo ==
    /\ ~crashed
    /\ readResp' = CreateGetMiningInfoResponse(CurrentPreviousHash,
                                               CurrentDifficulty)
    /\ UNCHANGED <<ledger, writer, crashed, ghosts>>
    /\ UNCHANGED outsideLedgerHost

\* handleGetBlocksInMinute
handleGetBlocksInMinute(t) ==
    /\ ~crashed
    /\ readResp' = ReadResponse("ReadBlocksInMinute", t, TRUE, FALSE, NoBlock,
                                GetBlocksFromMinute(t))
    /\ UNCHANGED <<ledger, writer, crashed, ghosts>>
    /\ UNCHANGED outsideLedgerHost

\* ------------------------------------------------------ the specification
Next ==
    \/ \E block \in RejectPool : WriteRejected(block)
    \/ \E block \in Block, t \in ClockPool : WriteBegin(block, t)
    \/ \E outcome \in {"ok", "openfail"} : WriteBody(outcome)
    \/ \E outcome \in {"ok", "openfail"} : WriteIndex(outcome)
    \/ \E outcome \in {"ok", "openfail", "syncfail"} : WriteHead(outcome)
    \/ SwapHead
    \/ Commit
    \/ \E hash \in HashQueries : handleGetBlockWithHash(hash)
    \/ \E t \in TimeQueries : handleGetBlocksInMinute(t)
    \/ handleGetMiningInfo

Spec == Init /\ [][Next]_vars

\* ------------------------------------- the difficulty update, taken alone
\* The inputs of computeDifficulty: the difficulty of the block (the current
\* difficulty, by the check of WriteBlock), the mined-block count and the
\* seconds since the last write.
DifficultyInputs ==
    {Zero, One, 2, Big32Modulus \div DifficultyFactor,
     Big32Modulus \div DifficultyFactor + 1, DifficultyFactor,
     Big32Modulus \div ByteBase}
MinedCountInputs == {0, 1, DifficultyPeriod}
ElapsedInputs ==
    {0, 1, 2, DifficultyFactor, DifficultyFactor + 1, 2 * DifficultyFactor}

\* Blockchain.WriteBlock up to the call of Save, for a block that passes the
\* checks, in a ledger host whose difficulty, mined-block count and last
\* write are the inputs; the files and the head do not enter the update.
DrawCall(d, mined, elapsed) ==
    /\ cur' = [hash |-> One, prev |-> Zero, ts |-> 30, diff |-> d]
    /\ currentDifficulty' = d
    /\ minedCount' = mined
    /\ lastWrite' = BootTime
    /\ writeTime' = BootTime + elapsed
    /\ newDifficulty' = Zero
    /\ crashed' = FALSE
    /\ dcall' = "call"

DifficultyInit ==
    /\ blockFiles = [f \in FileNames |-> <<>>]
    /\ indexFiles = [i \in IndexNames |-> <<>>]
    /\ headFile = NoHead
    /\ previousBlockHash = Zero
    /\ previousBlockDifficulty = One
    /\ previousBlockTimestamp = 0
    /\ wpc = "idle"
    /\ fpos = 0
    /\ err = "none"
    /\ reqHead = [hash |-> Zero, diff |-> One]
    /\ wresp = NoResponse
    /\ readResp = NoResponse
    /\ admitted = <<>>
    /\ bodyLog = <<>>
    /\ writes = 0
    /\ ioFailures = 0
    /\ \E d \in DifficultyInputs, mined \in MinedCountInputs,
          elapsed \in ElapsedInputs :
          /\ cur = [hash |-> One, prev |-> Zero, ts |-> 30, diff |-> d]
          /\ currentDifficulty = d
          /\ minedCount = mined
          /\ lastWrite = BootTime
          /\ writeTime = BootTime + elapsed
    /\ newDifficulty = Zero
    /\ crashed = FALSE
    /\ dcall = "call"
    /\ prevCall = NoCall
    /\ GatewayBoot
    /\ LibraryOff

\* Save calls computeDifficulty: the closure returns the new difficulty, or
\* FromBig panics in it and nothing recovers.
CallComputeDifficulty ==
    /\ dcall = "call"
    /\ checkBlock(cur) = "none"
    /\ IF FromBigPanics(computeDifficulty(cur))
         THEN /\ crashed' = TRUE
              /\ dcall' = "panicked"
              /\ UNCHANGED newDifficulty
         ELSE /\ newDifficulty' = computeDifficulty(cur)
              /\ dcall' = "returned"
              /\ UNCHANGED crashed
    /\ UNCHANGED <<files, repoHead, chainState, wpc, cur, fpos, writeTime, err,
                   reqHead, wresp, readResp, ghosts, prevCall>>
    /\ UNCHANGED <<gateway, library>>

\* Blockchain.WriteBlock after Save has returned nil.
WriteBlockReturns ==
    /\ dcall = "returned"
    /\ currentDifficulty' = newDifficulty
    /\ lastWrite' = writeTime
    /\ minedCount' = minedCount + 1
    /\ dcall' = "saved"
    /\ UNCHANGED <<files, repoHead, wpc, cur, fpos, newDifficulty, writeTime,
                   err, reqHead, wresp, readResp, crashed, ghosts, prevCall>>
    /\ UNCHANGED <<gateway, library>>

\* The call is over, by a return or by a panic, and another is followed.
NextCall(d, mined, elapsed) ==
    /\ dcall \in {"saved", "panicked"}
    /\ prevCall' = [diff |-> cur.diff, elapsed |-> writeTime - BootTime,
                    count |-> IF dcall = "saved" THEN minedCount - 1
                              ELSE minedCount,
                    new |-> IF dcall = "saved" THEN newDifficulty ELSE -1]
    /\ DrawCall(d, mined, elapsed)
    /\ UNCHANGED <<files, repoHead, wpc, fpos, err, reqHead, wresp, readResp,
                   ghosts>>
    /\ UNCHANGED <<gateway, library>>

DifficultyNext ==
    \/ CallComputeDifficulty
    \/ WriteBlockReturns
    \/ \E d \in DifficultyInputs, mined \in MinedCountInputs,
          elapsed \in ElapsedInputs : NextCall(d, mined, elapsed)

DifficultySpec == DifficultyInit /\ [][DifficultyNext]_vars

\* ----------------------------------------------------------- the gateway
NotificationsCapacity == QueueCapacity + 1

\* message.CreateWriteChunkResponse, with the chunk it answers.
CreateWriteChunkResponse(chunk, accepted) == [chunk |-> chunk, accepted |-> accepted]

\* A queue that takes one chunk more than its capacity.
isFullBeyondCapacity == count > QueueCapacity

\* ChunkQueue.isFull
isFull == count = QueueCapacity

\* ChunkQueue.PushRequest, called by HandleWriteChunk: under the lock, a full
\* queue rejects; else the chunk is linked at the tail, the count goes up and
\* a notification is sent, which blocks the pusher, with the lock held, when
\* the channel is full.  chunk is the number of the push.
PushRequest ==
    /\ lock = "free"
    /\ pushed < MaxPushes
    /\ pushed' = pushed + 1
    /\ LET chunk == pushed + 1 IN
         IF isFull
           THEN /\ pushResp' = CreateWriteChunkResponse(chunk, FALSE)
                /\ UNCHANGED <<chunkQueue, acceptedChunks>>
           ELSE /\ chunks' = Append(chunks, chunk)
                /\ count' = count + 1
                /\ IF notifications < NotificationsCapacity
                     THEN /\ notifications' = notifications + 1
                          /\ pushResp' = CreateWriteChunkResponse(chunk, TRUE)
                          /\ acceptedChunks' = Append(acceptedChunks, chunk)
                          /\ lock' = lock
                     ELSE /\ lock' = "pusher"
                          /\ UNCHANGED <<notifications, pushResp, acceptedChunks>>
    /\ UNCHANGED <<packer, channels, blockWriter, miners, middleware,
                   ledgerSeen, packed, outsideGateway>>

\* BlockPacker.evaluateBlockCreation up to the call of Count.
evaluateBlockCreation(ignore) ==
    IF ~isDownstreamReady
      THEN /\ ppc' = "select"
           /\ ignoreThreshold' = FALSE
      ELSE /\ ppc' = "count"
           /\ ignoreThreshold' = ignore

\* The case of the timer in BlockPacker.loop: handleInterrupt.
PackerTick ==
    /\ ppc = "select"
    /\ evaluateBlockCreation(TRUE)
    /\ UNCHANGED <<chunkQueue, clients, isDownstreamReady, packerPreviousHash,
                   packerDifficulty, pblock, popped, channels, blockWriter, miners,
                   middleware, ledgerSeen, gatewayGhosts, outsideGateway>>

\* The case of the notifications channel in BlockPacker.loop.  The receive
\* leaves room in the channel: a pusher blocked on it completes its send,
\* answers accepted and unlocks.
PackerNotification ==
    /\ ppc = "select"
    /\ notifications > 0
    /\ IF lock = "pusher"
         THEN /\ lock' = "free"
              /\ notifications' = notifications
              /\ pushResp' = CreateWriteChunkResponse(chunks[Len(chunks)], TRUE)
              /\ acceptedChunks' = Append(acceptedChunks, chunks[Len(chunks)])
         ELSE /\ notifications' = notifications - 1
              /\ UNCHANGED <<lock, pushResp, acceptedChunks>>
    /\ evaluateBlockCreation(FALSE)
    /\ UNCHANGED <<chunks, count, pushed, isDownstreamReady, packerPreviousHash,
                   packerDifficulty, pblock, popped, channels, blockWriter, miners,
                   middleware, ledgerSeen, packed, outsideGateway>>

\* A packer that marks the downstream ready and keeps the head it had.
PackerUpdateKeepsHead ==
    /\ ppc = "select"
    /\ updateChannel # <<>>
    /\ isDownstreamReady' = TRUE
    /\ updateChannel' = Tail(updateChannel)
    /\ UNCHANGED <<chunkQueue, clients, ppc, ignoreThreshold, pblock, popped,
                   packerPreviousHash, packerDifficulty,
                   blockChannel, blockWriter, miners, middleware, ledgerSeen,
                   gatewayGhosts, outsideGateway>>

\* The case of the update channel in BlockPacker.loop:
\* evaluateWriteBlockResponse.
PackerUpdate ==
    /\ ppc = "select"
    /\ updateChannel # <<>>
    /\ packerPreviousHash' = Head(updateChannel).new_prev_hash
    /\ packerDifficulty' = Head(updateChannel).new_difficulty
    /\ isDownstreamReady' = TRUE
    /\ updateChannel' = Tail(updateChannel)
    /\ UNCHANGED <<chunkQueue, clients, ppc, ignoreThreshold, pblock, popped,
                   blockChannel, blockWriter, miners, middleware, ledgerSeen,
                   gatewayGhosts, outsideGateway>>

\* A packer that goes for a block whatever the count, when it is not 0.
PackerCountWithoutThreshold ==
    /\ ppc = "count"
    /\ lock = "free"
    /\ ppc' = IF count = 0 THEN "select" ELSE "pop"
    /\ ignoreThreshold' = (ignoreThreshold /\ ppc' = "pop")
    /\ UNCHANGED <<chunkQueue, clients, isDownstreamReady, packerPreviousHash,
                   packerDifficulty, pblock, popped, channels, blockWriter, miners,
                   middleware, ledgerSeen, gatewayGhosts, outsideGateway>>

\* evaluateBlockCreation: ChunkQueue.Count under the lock, and the test of
\* the count against the threshold.  ignoreThreshold is the parameter of the
\* call, kept until the call returns.
PackerCount ==
    /\ ppc = "count"
    /\ lock = "free"
    /\ LET queuedCount == count IN
         IF queuedCount = 0 THEN ppc' = "select"
         ELSE IF queuedCount >= ChunkThreshold \/ ignoreThreshold
         THEN ppc' = "pop"
         ELSE ppc' = "select"
    /\ ignoreThreshold' = (ignoreThreshold /\ ppc' = "pop")
    /\ UNCHANGED <<chunkQueue, clients, isDownstreamReady, packerPreviousHash,
                   packerDifficulty, pblock, popped, channels, blockWriter, miners,
                   middleware, ledgerSeen, gatewayGhosts, outsideGateway>>

\* blockchain.CreateBlock: an error when there is no entry.
CreateBlock(previousHash, difficulty, entries) ==
    IF entries = <<>> THEN NoCandidate
    ELSE [prev |-> previousHash, diff |-> difficulty, entries |-> entries,
          nonce |-> 0]

\* The list handed over without its tail.
PopChunksWithoutTail == SubSeq(chunks, 1, Len(chunks) - 1)

\* ChunkQueue.PopChunks: the linked list from the head.
PopChunks == chunks

\* evaluateBlockCreation: ChunkQueue.PopChunks under the lock, which leaves
\* the queue empty and the notifications as they are, and CreateBlock.
PackerPop ==
    /\ ppc = "pop"
    /\ lock = "free"
    /\ chunks' = <<>>
    /\ count' = 0
    /\ LET block == CreateBlock(packerPreviousHash, packerDifficulty, PopChunks) IN
         IF block = NoCandidate
           THEN /\ ppc' = "select"
                /\ ignoreThreshold' = FALSE
                /\ popped' = <<>>
                /\ UNCHANGED <<pblock, packed>>
           ELSE /\ ppc' = "publish"
                /\ popped' = PopChunks
                /\ pblock' = block
                /\ packed' = packed \o block.entries
                /\ UNCHANGED ignoreThreshold
    /\ UNCHANGED <<notifications, lock, clients,
                   isDownstreamReady, packerPreviousHash, packerDifficulty,
                   channels, blockWriter, miners, middleware, ledgerSeen,
                   acceptedChunks, outsideGateway>>

\* The block sent and the downstream left marked as ready.
PackerPublishStaysReady ==
    /\ ppc = "publish"
    /\ Len(blockChannel) < 1
    /\ blockChannel' = Append(blockChannel, pblock)
    /\ pblock' = NoCandidate
    /\ popped' = <<>>
    /\ ppc' = "select"
    /\ ignoreThreshold' = FALSE
    /\ UNCHANGED <<chunkQueue, clients, isDownstreamReady,
                   packerPreviousHash, packerDifficulty, updateChannel,
                   blockWriter, miners, middleware, ledgerSeen, gatewayGhosts,
                   outsideGateway>>

\* evaluateBlockCreation: the send on the block channel, of capacity 1, and
\* the downstream marked as not ready.
PackerPublish ==
    /\ ppc = "publish"
    /\ Len(blockChannel) < 1
    /\ blockChannel' = Append(blockChannel, pblock)
    /\ isDownstreamReady' = FALSE
    /\ pblock' = NoCandidate
    /\ popped' = <<>>
    /\ ppc' = "select"
    /\ ignoreThreshold' = FALSE
    /\ UNCHANGED <<chunkQueue, clients, packerPreviousHash,
                   packerDifficulty, updateChannel, blockWriter, miners,
                   middleware, ledgerSeen, gatewayGhosts, outsideGateway>>

\* BlockWriter.boot: the mining information of the middleware is sent on the
\* update channel, of capacity 1.
boot ==
    /\ writerState = "Booting"
    /\ Len(updateChannel) < 1
    /\ updateChannel' = Append(updateChannel,
           CreateWriteBlockResponse(TRUE, mwPreviousHash, mwDifficulty))
    /\ writerState' = "WaitingForBlock"
    /\ UNCHANGED <<chunkQueue, clients, packer, blockChannel, writerStep,
                   writerIndex, currentMiningRequest, responseChannel,
                   blockResponse, miners, middleware, ledgerSeen,
                   gatewayGhosts, outsideGateway>>

\* A writer that keeps one response channel for all its mining requests.
awaitBlockKeepsChannel ==
    /\ writerState = "WaitingForBlock"
    /\ writerStep = "loop"
    /\ blockChannel # <<>>
    /\ currentMiningRequest' = Head(blockChannel)
    /\ blockChannel' = Tail(blockChannel)
    /\ writerStep' = "StartMining"
    /\ writerIndex' = 1
    /\ UNCHANGED <<chunkQueue, clients, packer, updateChannel, writerState,
                   responseChannel, blockResponse, miners, middleware,
                   ledgerSeen, gatewayGhosts, outsideGateway>>

\* BlockWriter.awaitBlock receives a block; handleIncomingBlock makes the
\* response channel and the mining request of the block.
awaitBlock ==
    /\ writerState = "WaitingForBlock"
    /\ writerStep = "loop"
    /\ blockChannel # <<>>
    /\ currentMiningRequest' = Head(blockChannel)
    /\ blockChannel' = Tail(blockChannel)
    /\ responseChannel' = <<>>
    /\ writerStep' = "StartMining"
    /\ writerIndex' = 1
    /\ UNCHANGED <<chunkQueue, clients, packer, updateChannel, writerState,
                   blockResponse, miners, middleware, ledgerSeen,
                   gatewayGhosts, outsideGateway>>

\* blockchain.CreateBlockFromBuffer of the buffer of a block: a block of its
\* own with the same bytes.
CreateBlockFromBuffer(block) ==
    [prev |-> block.prev, diff |-> block.diff, entries |-> block.entries,
     nonce |-> block.nonce]

\* handleIncomingBlock: Miner.StartMining of miner m, a send on its request
\* channel, which has no buffer: the miner receives it in awaitMiningRequest
\* and handleMiningRequest takes a copy of the block.  After the last miner
\* the writer waits for the miners.
StartMining(m) ==
    /\ writerStep = "StartMining"
    /\ writerIndex = m
    /\ minerState[m] = "Idle"
    /\ minerRequest' = [minerRequest EXCEPT
                            ![m] = CreateBlockFromBuffer(currentMiningRequest)]
    /\ minerState' = [minerState EXCEPT ![m] = "Mining"]
    /\ IF m = MinerCount
         THEN /\ writerState' = "WaitingForMiners"
              /\ writerStep' = "loop"
              /\ writerIndex' = 0
         ELSE /\ writerIndex' = m + 1
              /\ UNCHANGED <<writerState, writerStep>>
    /\ UNCHANGED <<chunkQueue, clients, packer, channels, currentMiningRequest,
                   responseChannel, blockResponse, middleware, ledgerSeen,
                   gatewayGhosts, outsideGateway>>

\* The response channel of a miner's request is the channel the writer
\* listens on when the request is the writer's current one.
OfCurrentRequest(block) ==
    /\ block.entries = currentMiningRequest.entries
    /\ block.prev = currentMiningRequest.prev
    /\ block.diff = currentMiningRequest.diff

\* A miner that goes on mining the block it has sent.
mineStaysMining(m) ==
    /\ minerState[m] = "Mining"
    /\ responseChannel' = Append(responseChannel, minerRequest[m])
    /\ UNCHANGED <<chunkQueue, clients, packer, channels, writerState,
                   writerStep, writerIndex, currentMiningRequest,
                   blockResponse, miners, middleware, ledgerSeen, gatewayGhosts,
                   outsideGateway>>

\* Block.GenerateNonce fills the nonce with random bytes: the nonces with
\* which a miner finds a valid hash.
NoncePool == {1, 2}

\* Miner.mine when AttemptHash succeeds: the block, with the nonce it was
\* found with, is sent on the response channel of the request (one place for each
\* miner) and the miner is Idle.  A failed attempt changes no state but the
\* statistics.
mine(m) ==
    /\ minerState[m] = "Mining"
    /\ IF OfCurrentRequest(minerRequest[m])
         THEN \E nonce \in NoncePool :
                  responseChannel' =
                      Append(responseChannel,
                             [minerRequest[m] EXCEPT !.nonce = nonce])
         ELSE UNCHANGED responseChannel
    /\ minerRequest' = [minerRequest EXCEPT ![m] = NoCandidate]
    /\ minerState' = [minerState EXCEPT ![m] = "Idle"]
    /\ UNCHANGED <<chunkQueue, clients, packer, channels, writerState,
                   writerStep, writerIndex, currentMiningRequest,
                   blockResponse, middleware, ledgerSeen, gatewayGhosts,
                   outsideGateway>>

\* Block.Hash of a mined block: distinct blocks have distinct hashes.
Hash(block) == block.entries[1] * (Cardinality(NoncePool) + 1) + block.nonce

\* The head hash of the ledger host.
LedgerHead == IF chain = <<>> THEN Zero ELSE Hash(chain[Len(chain)])

\* The difficulty the ledger host computes when it admits a block.
NextDifficulties ==
    IF Len(chain) % DifficultyPeriod = 0 THEN {One, DifficultyFactor}
    ELSE {chainDifficulty}

\* A ledger host that admits a block whatever its previous hash.
handleMiningResponseAnyParent(outcome, difficulty) ==
    /\ writerState = "WaitingForMiners"
    /\ writerStep = "loop"
    /\ responseChannel # <<>>
    /\ responseChannel' = Tail(responseChannel)
    /\ LET block == Head(responseChannel) IN
         CASE outcome = "error" ->
                /\ difficulty = chainDifficulty
                /\ UNCHANGED <<writerStep, writerIndex, blockResponse,
                               middleware, ledgerSeen>>
           [] outcome = "rejected" ->
                /\ difficulty = chainDifficulty
                /\ blockResponse' = CreateWriteBlockResponse(FALSE, LedgerHead,
                                                             chainDifficulty)
                /\ mwPreviousHash' = LedgerHead
                /\ mwDifficulty' = chainDifficulty
                /\ writerStep' = "StopMining"
                /\ writerIndex' = 1
                /\ UNCHANGED ledgerSeen
           [] outcome = "lost" ->
                /\ block.diff = chainDifficulty
                /\ difficulty \in NextDifficulties
                /\ chain' = Append(chain, block)
                /\ chainDifficulty' = difficulty
                /\ UNCHANGED <<writerStep, writerIndex, blockResponse,
                               middleware>>
           [] outcome = "accepted" ->
                /\ block.diff = chainDifficulty
                /\ difficulty \in NextDifficulties
                /\ chain' = Append(chain, block)
                /\ chainDifficulty' = difficulty
                /\ blockResponse' = CreateWriteBlockResponse(TRUE, Hash(block),
                                                             difficulty)
                /\ mwPreviousHash' = Hash(block)
                /\ mwDifficulty' = difficulty
                /\ writerStep' = "StopMining"
                /\ writerIndex' = 1
    /\ UNCHANGED <<chunkQueue, clients, packer, channels, writerState,
                   currentMiningRequest, miners, gatewayGhosts,
                   outsideGateway>>

\* BlockWriter.awaitMiners receives a mined block; handleMiningResponse sends
\* it with middleware.WriteBlock.  The connection fails before the ledger
\* host has the block ("error") or after it has admitted it, the response
\* being lost ("lost"): the error is logged and the writer goes on waiting
\* for the miners.  Or the ledger host answers: it admits a block that
\* continues its chain at its difficulty, it rejects another, or one whose
\* save fails.  The middleware keeps the head of the response.
handleMiningResponse(outcome, difficulty) ==
    /\ writerState = "WaitingForMiners"
    /\ writerStep = "loop"
    /\ responseChannel # <<>>
    /\ responseChannel' = Tail(responseChannel)
    /\ LET block == Head(responseChannel) IN
         CASE outcome = "error" ->
                /\ difficulty = chainDifficulty
                /\ UNCHANGED <<writerStep, writerIndex, blockResponse,
                               middleware, ledgerSeen>>
           [] outcome = "rejected" ->
                /\ difficulty = chainDifficulty
                /\ blockResponse' = CreateWriteBlockResponse(FALSE, LedgerHead,
                                                             chainDifficulty)
                /\ mwPreviousHash' = LedgerHead
                /\ mwDifficulty' = chainDifficulty
                /\ writerStep' = "StopMining"
                /\ writerIndex' = 1
                /\ UNCHANGED ledgerSeen
           [] outcome = "lost" ->
                /\ block.prev = LedgerHead
                /\ block.diff = chainDifficulty
                /\ difficulty \in NextDifficulties
                /\ chain' = Append(chain, block)
                /\ chainDifficulty' = difficulty
                /\ UNCHANGED <<writerStep, writerIndex, blockResponse,
                               middleware>>
           [] outcome = "accepted" ->
                /\ block.prev = LedgerHead
                /\ block.diff = chainDifficulty
                /\ difficulty \in NextDifficulties
                /\ chain' = Append(chain, block)
                /\ chainDifficulty' = difficulty
                /\ blockResponse' = CreateWriteBlockResponse(TRUE, Hash(block),
                                                             difficulty)
                /\ mwPreviousHash' = Hash(block)
                /\ mwDifficulty' = difficulty
                /\ writerStep' = "StopMining"
                /\ writerIndex' = 1
    /\ UNCHANGED <<chunkQueue, clients, packer, channels, writerState,
                   currentMiningRequest, miners, gatewayGhosts,
                   outsideGateway>>

\* A writer that goes on to the next miner without the miner having taken
\* the stop signal: miner m keeps its state and its request.
StopMiningNotTaken(m) ==
    /\ writerStep = "StopMining"
    /\ writerIndex = m
    /\ IF m = MinerCount
         THEN /\ writerStep' = "respond"
              /\ writerIndex' = 0
         ELSE /\ writerIndex' = m + 1
              /\ UNCHANGED writerStep
    /\ UNCHANGED <<chunkQueue, clients, packer, channels, writerState,
                   currentMiningRequest, miners, responseChannel, blockResponse,
                   middleware, ledgerSeen, gatewayGhosts, outsideGateway>>

\* handleMiningResponse: Miner.StopMining of miner m, a send on its control
\* channel, which has no buffer: the miner receives it in awaitMiningRequest
\* or at the top of mine, and handleSignal makes it Idle.
StopMining(m) ==
    /\ writerStep = "StopMining"
    /\ writerIndex = m
    /\ minerRequest' = [minerRequest EXCEPT ![m] = NoCandidate]
    /\ minerState' = [minerState EXCEPT ![m] = "Idle"]
    /\ IF m = MinerCount
         THEN /\ writerStep' = "respond"
              /\ writerIndex' = 0
         ELSE /\ writerIndex' = m + 1
              /\ UNCHANGED writerStep
    /\ UNCHANGED <<chunkQueue, clients, packer, channels, writerState,
                   currentMiningRequest, responseChannel, blockResponse,
                   middleware, ledgerSeen, gatewayGhosts, outsideGateway>>

\* handleMiningResponse: the response is sent on the update channel and the
\* writer waits for a block.
respond ==
    /\ writerStep = "respond"
    /\ Len(updateChannel) < 1
    /\ updateChannel' = Append(updateChannel, blockResponse)
    /\ blockResponse' = NoResponse
    /\ writerState' = "WaitingForBlock"
    /\ writerStep' = "loop"
    /\ UNCHANGED <<chunkQueue, clients, packer, blockChannel, writerIndex,
                   currentMiningRequest, responseChannel, miners, middleware,
                   ledgerSeen, gatewayGhosts, outsideGateway>>

\* ------------------------------------------------ the chunk queue alone
\* ChunkQueue.PopChunks called on the queue as it is, empty or not.
PopChunksCall ==
    /\ lock = "free"
    /\ ppc = "select"
    /\ popped' = PopChunks
    /\ packed' = packed \o PopChunks
    /\ chunks' = <<>>
    /\ count' = 0
    /\ UNCHANGED <<notifications, lock, clients, ppc, ignoreThreshold,
                   isDownstreamReady, packerPreviousHash, packerDifficulty,
                   pblock, channels, blockWriter, miners, middleware,
                   ledgerSeen, acceptedChunks, outsideGateway>>

\* The queue with its callers: pushes, a receiver on the notifications
\* channel (the packer, whose downstream is not ready) and PopChunks.
QueueNext ==
    \/ PushRequest
    \/ PackerNotification
    \/ PopChunksCall

QueueSpec == Init /\ [][QueueNext]_vars

GatewayNext ==
    \/ PushRequest
    \/ PackerTick
    \/ PackerNotification
    \/ PackerUpdate
    \/ PackerCount
    \/ PackerPop
    \/ PackerPublish
    \/ boot
    \/ awaitBlock
    \/ \E m \in Miners : StartMining(m)
    \/ \E m \in Miners : mine(m)
    \/ \E outcome \in {"accepted", "rejected", "error", "lost"},
          difficulty \in {One, DifficultyFactor} :
          handleMiningResponse(outcome, difficulty)
    \/ \E m \in Miners : StopMining(m)
    \/ respond

GatewaySpec == Init /\ [][GatewayNext]_vars

\* The gateway with a packer that is scheduled: the ticker keeps sending, and
\* the select of BlockPacker.loop chooses at random among the cases that are
\* ready, so the case of the timer is taken in the end; a call of Count, of
\* PopChunks or a send on the block channel that can return does return.
GatewayFairSpec ==
    /\ GatewaySpec
    /\ SF_vars(PackerTick)
    /\ WF_vars(PackerCount)
    /\ WF_vars(PackerPop)
    /\ WF_vars(PackerPublish)

\* ---------------------------------------------- the gateway, when stopped
\* BlockchainService.Stop: the stop signal is received by Run, which goes on
\* to stop the packer.
Stop ==
    /\ svcStep = "running"
    /\ svcStep' = "packer.Stop"
    /\ UNCHANGED <<packerControl, packerStopping, writerStopping, quitIndex,
                   minerStopping, writerDone, outsideShutdown>>

\* BlockPacker.Stop: the quit signal is sent on the control channel of the
\* packer, of capacity 1; Run goes on to stop the writer.
PackerStop ==
    /\ svcStep = "packer.Stop"
    /\ packerControl < 1
    /\ packerControl' = packerControl + 1
    /\ svcStep' = "writer.Stop"
    /\ UNCHANGED <<packerStopping, writerStopping, quitIndex, minerStopping,
                   writerDone, outsideShutdown>>

\* The case of the control channel in BlockPacker.loop: handle sets
\* stopping, Run leaves its loop, stops the timer and reports done.
PackerQuit ==
    /\ ~packerStopping
    /\ ppc = "select"
    /\ packerControl > 0
    /\ packerControl' = packerControl - 1
    /\ packerStopping' = TRUE
    /\ UNCHANGED <<svcStep, writerStopping, quitIndex, minerStopping,
                   writerDone, outsideShutdown>>

\* BlockWriter.Stop, a send on the quit channel of the writer, which has no
\* buffer: the writer receives it in awaitBlock or in awaitMiners, finalize
\* sets stopping and Run leaves its loop.
WriterQuit ==
    /\ svcStep = "writer.Stop"
    /\ writerState \in {"WaitingForBlock", "WaitingForMiners"}
    /\ writerStep = "loop"
    /\ writerStopping' = TRUE
    /\ quitIndex' = 1
    /\ svcStep' = "Wait"
    /\ UNCHANGED <<packerControl, packerStopping, minerStopping, writerDone,
                   outsideShutdown>>

\* BlockWriter.Run: Miner.Stop of miner m, a send on its control channel,
\* which has no buffer: the miner receives it in awaitMiningRequest or at
\* the top of mine, handleSignal sets stopping and Run reports done.
MinerStop(m) ==
    /\ writerStopping
    /\ quitIndex = m
    /\ minerStopping' = [minerStopping EXCEPT ![m] = TRUE]
    /\ quitIndex' = m + 1
    /\ UNCHANGED <<svcStep, packerControl, packerStopping, writerStopping,
                   writerDone, outsideShutdown>>

\* BlockWriter.Run: the wait for the miners is over and the writer reports
\* done.
WriterDone ==
    /\ writerStopping
    /\ ~writerDone
    /\ quitIndex = MinerCount + 1
    /\ \A m \in Miners : minerStopping[m]
    /\ writerDone' = TRUE
    /\ UNCHANGED <<svcStep, packerControl, packerStopping, writerStopping,
                   quitIndex, minerStopping, outsideShutdown>>

\* BlockchainService.Run: the wait for the packer and the writer is over.
ServiceDone ==
    /\ svcStep = "Wait"
    /\ packerStopping
    /\ writerDone
    /\ svcStep' = "done"
    /\ UNCHANGED <<packerControl, packerStopping, writerStopping, quitIndex,
                   minerStopping, writerDone, outsideShutdown>>

\* The steps of the packer, of the writer and of the miners, each taken while
\* the loop of its Run goes on.
PackerLoop ==
    /\ ~packerStopping
    /\ \/ PackerTick
       \/ PackerNotification
       \/ PackerUpdate
       \/ PackerCount
       \/ PackerPop
       \/ PackerPublish

WriterLoop ==
    /\ ~writerStopping
    /\ \/ boot
       \/ awaitBlock
       \/ \E m \in Miners : StartMining(m)
       \/ \E outcome \in {"accepted", "rejected", "error", "lost"},
             difficulty \in {One, DifficultyFactor} :
             handleMiningResponse(outcome, difficulty)
       \/ \E m \in Miners : StopMining(m)
       \/ respond

MinerLoop == \E m \in Miners : ~minerStopping[m] /\ mine(m)

\* A step of a task of the pipeline, or of Run after the stop signal.
PipelineStep ==
    \/ PackerLoop
    \/ WriterLoop
    \/ MinerLoop
    \/ PackerStop
    \/ PackerQuit
    \/ WriterQuit
    \/ \E m \in Miners : MinerStop(m)
    \/ WriterDone
    \/ ServiceDone

ShutdownNext ==
    \/ PushRequest
    \/ Stop
    \/ PipelineStep

ShutdownSpec == Init /\ [][ShutdownNext]_vars

\* ------------------------------------------- a Block object, taken alone
\* The header of the buffer, with the Big32 fields at the width of the model
\* (headerLength, headerOffset).
TimestampLength == 8
EntryCountLength == 1
OffsetPreviousHash == 0
OffsetNonce == Big32Len
OffsetTimestamp == 2 * Big32Len
OffsetEntryCount == 2 * Big32Len + TimestampLength
OffsetDifficulty == 2 * Big32Len + TimestampLength + EntryCountLength
OffsetData == 3 * Big32Len + TimestampLength + EntryCountLength

\* The values of a uint8 and of a uint16.
Uint8Modulus == 256
Uint16Modulus == 65536

\* Big32.Bytes: the bytes of a number, the most significant first.
RECURSIVE BigEndian(_, _)
BigEndian(n, length) ==
    IF length = 0 THEN <<>>
    ELSE Append(BigEndian(n \div ByteBase, length - 1), n % ByteBase)

\* big32.FromSlice
RECURSIVE FromSlice(_)
FromSlice(source) ==
    IF source = <<>> THEN 0
    ELSE FromSlice(SubSeq(source, 1, Len(source) - 1)) * ByteBase
             + source[Len(source)]

\* binary.LittleEndian.PutUint16, PutUint32, PutUint64
RECURSIVE PutLittleEndian(_, _)
PutLittleEndian(n, length) ==
    IF length = 0 THEN <<>>
    ELSE <<n % ByteBase>> \o PutLittleEndian(n \div ByteBase, length - 1)

\* binary.LittleEndian.Uint16, Uint32, Uint64
RECURSIVE LittleEndian(_)
LittleEndian(source) ==
    IF source = <<>> THEN 0
    ELSE source[1] + ByteBase * LittleEndian(Tail(source))

\* buffer[offset : offset+length]
Slice(buffer, offset, length) == SubSeq(buffer, offset + 1, offset + length)

\* copy(buffer[offset:offset+len(source)], source)
Patch(buffer, offset, source) ==
    [i \in 1..Len(buffer) |->
        IF i > offset /\ i <= offset + Len(source) THEN source[i - offset]
        ELSE buffer[i]]

\* CreateBlock: the records of the entries from one index to another, each
\* the length of the chunk on two bytes and its data, in the order of the
\* list.
RECURSIVE EntryRecords(_, _, _)
EntryRecords(chunkList, first, last) ==
    IF first > last THEN <<>>
    ELSE IF first = last
      THEN PutLittleEndian(Len(chunkList[first]) % Uint16Modulus, 2)
               \o SubSeq(chunkList[first], 1,
                         Len(chunkList[first]) % Uint16Modulus)
      ELSE LET middle == (first + last) \div 2
           IN EntryRecords(chunkList, first, middle)
                  \o EntryRecords(chunkList, middle + 1, last)

\* The entries copied from the last chunk of the list to the first.
CreateBlockImageLastFirst(previousHash, difficulty, timestamp, chunkList) ==
    BigEndian(previousHash, Big32Len)
        \o BigEndian(0, Big32Len)
        \o PutLittleEndian(timestamp, TimestampLength)
        \o <<Len(chunkList) % Uint8Modulus>>
        \o BigEndian(difficulty, Big32Len)
        \o EntryRecords([i \in 1..Len(chunkList) |->
                             chunkList[Len(chunkList) + 1 - i]],
                        1, Len(chunkList))

\* CreateBlock for a list that is not nil: the count of the entries is kept
\* in a uint8, the header is set and the entries are copied after it.
CreateBlockImage(previousHash, difficulty, timestamp, chunkList) ==
    BigEndian(previousHash, Big32Len)
        \o BigEndian(0, Big32Len)
        \o PutLittleEndian(timestamp, TimestampLength)
        \o <<Len(chunkList) % Uint8Modulus>>
        \o BigEndian(difficulty, Big32Len)
        \o EntryRecords(chunkList, 1, Len(chunkList))

\* Block.EntryCount, Block.PreviousHash, Block.Nonce, Block.Timestamp
EntryCount(buffer) == buffer[OffsetEntryCount + 1]
PreviousHashOf(buffer) == FromSlice(Slice(buffer, OffsetPreviousHash, Big32Len))
NonceOf(buffer) == FromSlice(Slice(buffer, OffsetNonce, Big32Len))
TimestampOf(buffer) == LittleEndian(Slice(buffer, OffsetTimestamp, TimestampLength))

\* ChunkIterator.ChunkLength at an offset of the buffer.
ChunkLength(buffer, offset) == LittleEndian(Slice(buffer, offset, 2))

\* The ChunkIterator run a number of times from an offset: Chunk gives the
\* data at the offset, Advance moves the offset past the length and the data
\* of the chunk.  The offset starts at the data and never goes back.
RECURSIVE Iterate(_, _, _)
Iterate(buffer, offset, times) ==
    IF times = 0 THEN [chunks |-> <<>>, currentOffset |-> offset]
    ELSE IF times = 1
      THEN [chunks |-> <<Slice(buffer, offset + 2, ChunkLength(buffer, offset))>>,
            currentOffset |-> offset + ChunkLength(buffer, offset) + 2]
      ELSE LET half == times \div 2
               first == Iterate(buffer, offset, half)
           IN IF first.currentOffset >= OffsetData
                THEN LET rest == Iterate(buffer, first.currentOffset, times - half)
                     IN [chunks |-> first.chunks \o rest.chunks,
                         currentOffset |-> rest.currentOffset]
                ELSE first

\* Block.Entries and the ChunkIterator: EntryCount chunks, read one after
\* the other from the offset of the data.
ChunkEntries(buffer) == Iterate(buffer, OffsetData, EntryCount(buffer)).chunks

\* sha256.Sum256, as a checksum of every byte of the buffer, weighted by its
\* place, and of the length of the buffer, at the width of a Big32 of the
\* model.
RECURSIVE WeightedSum(_, _, _)
WeightedSum(buffer, first, last) ==
    IF first > last THEN 0
    ELSE IF first = last THEN ((buffer[first] + 1) * first) % Big32Modulus
    ELSE LET middle == (first + last) \div 2
         IN (WeightedSum(buffer, first, middle)
                + WeightedSum(buffer, middle + 1, last)) % Big32Modulus

Sum256(buffer) == (Len(buffer) + WeightedSum(buffer, 1, Len(buffer))) % Big32Modulus

\* The chunk lists given to CreateBlock: nil, short lists with chunks of no
\* byte and of some, and lists of 255, 256 and 257 chunks.
LongLists == {[i \in 1..n |-> <<>>] : n \in {255, 256, 257}}
ShortLists == {<<>>, << <<>> >>, << <<7>> >>, << <<7>>, <<8, 9>> >>}
ChunkLists == ShortLists \cup LongLists

\* The operations after which the block can be mutated, hashed or written.
Built == {"CreateBlock", "GenerateNonce", "SetCreationTime", "setDifficulty",
          "Hash"}

BlockInit ==
    /\ LedgerHostBoot
    /\ DifficultyCallOff
    /\ GatewayBoot
    /\ givenChunks \in ChunkLists
    /\ givenPreviousHash \in PrevPool
    /\ givenDifficulty \in {One, DifficultyFactor}
    /\ subject = NoBlockObject
    /\ stream = <<>>
    /\ block2 = NoBlockObject
    /\ bop = "drawn"
    /\ hashes = <<>>
    /\ invalidated = FALSE
    /\ MessageHarnessOff
    /\ LockHarnessOff
    /\ ValidityHarnessOff

\* blockchain.CreateBlock: an error for a nil list, else the block with its
\* buffer marked dirty.
CallCreateBlock(now) ==
    /\ bop = "drawn"
    /\ IF givenChunks = <<>>
         THEN /\ bop' = "failed"
              /\ UNCHANGED subject
         ELSE /\ bop' = "CreateBlock"
              /\ subject' = [buffer |-> CreateBlockImage(givenPreviousHash,
                                            givenDifficulty, now, givenChunks),
                             hash |-> Zero,
                             bufferDirty |-> TRUE]
    /\ UNCHANGED <<givenChunks, givenPreviousHash, givenDifficulty, stream,
                   block2, hashes, invalidated, outsideBlock>>

\* A mutation of the buffer at a field: the bytes are copied in and the
\* buffer is marked dirty.
Mutate(offset, source, operation) ==
    /\ bop \in Built
    /\ subject' = [subject EXCEPT !.buffer = Patch(subject.buffer, offset, source),
                                  !.bufferDirty = TRUE]
    /\ bop' = operation
    /\ hashes' = <<>>
    /\ invalidated' = (invalidated \/ ~subject.bufferDirty)
    /\ UNCHANGED <<givenChunks, givenPreviousHash, givenDifficulty, stream,
                   block2, outsideBlock>>

\* A nonce written without the buffer being marked dirty.
GenerateNonceKeepsHash(nonce) ==
    /\ bop \in Built
    /\ subject' = [subject EXCEPT !.buffer = Patch(subject.buffer, OffsetNonce,
                                                   BigEndian(nonce, Big32Len))]
    /\ bop' = "GenerateNonce"
    /\ hashes' = <<>>
    /\ invalidated' = (invalidated \/ ~subject.bufferDirty)
    /\ UNCHANGED <<givenChunks, givenPreviousHash, givenDifficulty, stream,
                   block2, outsideBlock>>

\* Block.GenerateNonce: rand.Read on the bytes of the nonce.
GenerateNonce(nonce) ==
    Mutate(OffsetNonce, BigEndian(nonce, Big32Len), "GenerateNonce")

\* Block.SetCreationTime, by setTimestamp.
SetCreationTime(timestamp) ==
    Mutate(OffsetTimestamp, PutLittleEndian(timestamp, TimestampLength),
           "SetCreationTime")

\* Block.setDifficulty, by setBig32.
setDifficulty(difficulty) ==
    Mutate(OffsetDifficulty, BigEndian(difficulty, Big32Len), "setDifficulty")

\* Block.Hash on a block: the hash is computed when the buffer is dirty and
\* memoized; the memoized hash is returned.
Memoized(block) ==
    IF block.bufferDirty
      THEN [block EXCEPT !.hash = Sum256(block.buffer), !.bufferDirty = FALSE]
      ELSE block

CallHash ==
    /\ bop \in Built
    /\ subject' = Memoized(subject)
    /\ hashes' = IF Len(hashes) < 2 THEN Append(hashes, subject'.hash) ELSE hashes
    /\ bop' = "Hash"
    /\ UNCHANGED <<givenChunks, givenPreviousHash, givenDifficulty, stream,
                   block2, invalidated, outsideBlock>>

\* communication.Read of a number of bytes from a reader that holds bytes
\* and is at its end after them: an error when the reader ends before the
\* buffer is full, the bytes read (the buffer was made of zeros), and what
\* is left in the reader.
Read(reader, length) ==
    [err |-> Len(reader) < length,
     bytes |-> [i \in 1..length |-> IF i <= Len(reader) THEN reader[i] ELSE 0],
     rest |-> SubSeq(reader, length + 1, Len(reader))]

\* Block.BufferWithMetadata, the bytes that WriteWithMetadata writes: the
\* length of the buffer on four bytes, the hash, which Hash() computes if
\* need be, and the buffer.
BufferWithMetadata(block) ==
    PutLittleEndian(Len(block.buffer), 4)
        \o BigEndian(Memoized(block).hash, Big32Len)
        \o block.buffer

\* Block.LenghtWithMetadata, of a block with its buffer.
FramedLength(block) == 4 + Big32Len + Len(block.buffer)

\* blockchain.ReadBlock: the length, the hash, and as many bytes as the
\* length says, made a block by CreateBlockFromBuffer with the hash read and
\* a clean buffer.  The end of the reader in the length or in the hash is an
\* error without a block; in the buffer, it is an error with the block.
ReadBlock(reader) ==
    LET blocklenBuffer == Read(reader, 4)
        hash == Read(blocklenBuffer.rest, Big32Len)
        blockBuffer == Read(hash.rest, LittleEndian(blocklenBuffer.bytes))
    IN IF blocklenBuffer.err
         THEN [err |-> TRUE, block |-> NoBlockObject, rest |-> blocklenBuffer.rest]
         ELSE IF hash.err
           THEN [err |-> TRUE, block |-> NoBlockObject, rest |-> hash.rest]
           ELSE [err |-> blockBuffer.err,
                 block |-> [buffer |-> blockBuffer.bytes,
                            hash |-> FromSlice(hash.bytes),
                            bufferDirty |-> FALSE],
                 rest |-> blockBuffer.rest]

\* The frame written with the hash as it is in the block, computed or not.
CallWriteWithMetadataStaleHash ==
    /\ bop \in Built
    /\ UNCHANGED subject
    /\ stream' = PutLittleEndian(Len(subject.buffer), 4)
                     \o BigEndian(subject.hash, Big32Len)
                     \o subject.buffer
    /\ bop' = "WriteWithMetadata"
    /\ UNCHANGED <<givenChunks, givenPreviousHash, givenDifficulty, block2,
                   hashes, invalidated, outsideBlock>>

\* Block.WriteWithMetadata on an empty bytes.Buffer.
CallWriteWithMetadata ==
    /\ bop \in Built
    /\ subject' = Memoized(subject)
    /\ stream' = BufferWithMetadata(subject)
    /\ bop' = "WriteWithMetadata"
    /\ UNCHANGED <<givenChunks, givenPreviousHash, givenDifficulty, block2,
                   hashes, invalidated, outsideBlock>>

\* blockchain.ReadBlock on the bytes written.
CallReadBlock ==
    /\ bop = "WriteWithMetadata"
    /\ ~ReadBlock(stream).err
    /\ block2' = ReadBlock(stream).block
    /\ stream' = ReadBlock(stream).rest
    /\ bop' = "ReadBlock"
    /\ UNCHANGED <<givenChunks, givenPreviousHash, givenDifficulty, subject,
                   hashes, invalidated, outsideBlock>>

BlockNext ==
    \/ \E now \in TimePool : CallCreateBlock(now)
    \/ \E nonce \in NoncePool : GenerateNonce(nonce)
    \/ \E timestamp \in TimePool : SetCreationTime(timestamp)
    \/ \E difficulty \in {One, DifficultyFactor} : setDifficulty(difficulty)
    \/ CallHash
    \/ CallWriteWithMetadata
    \/ CallReadBlock

BlockSpec == BlockInit /\ [][BlockNext]_vars

\* ------------------------------------------------- the messages, encoded
\* The opcodes of the ten kinds of message (opcodes).
OpGetMiningInfo == 0
OpGetMiningInfoResponse == 1
OpGetBlockWithHash == 2
OpGetBlockByHashResponse == 3
OpGetBlocksInMinute == 4
OpReadBlocksInMinuteResponse == 5
OpWriteBlock == 6
OpWriteBlockResponse == 7
OpWriteChunk == 8
OpWriteChunkResponse == 9

\* A message: the fields of the struct message, and the block that
\* GetBlockByHashResponse and WriteBlock keep beside them.
Message(opcode, datalen, data, block) ==
    [opcode |-> opcode, datalen |-> datalen, data |-> data, block |-> block]

\* A bool as the byte of a flag.
Flag(accepted) == IF accepted THEN 1 ELSE 0

CreateGetMiningInfoRequest ==
    Message(OpGetMiningInfo, 0, <<>>, NoBlockObject)

CreateGetMiningInfoResponseMessage(previousHash, difficulty) ==
    Message(OpGetMiningInfoResponse, 2 * Big32Len,
            BigEndian(previousHash, Big32Len) \o BigEndian(difficulty, Big32Len),
            NoBlockObject)

CreateGetBlockByHashRequest(hash) ==
    Message(OpGetBlockWithHash, Big32Len, BigEndian(hash, Big32Len),
            NoBlockObject)

\* CreateGetBlockByHashResponse: the flag 1 and the block with its metadata,
\* or for a nil block the flag 0 alone.
CreateGetBlockByHashResponse(block) ==
    IF block # NoBlockObject
      THEN Message(OpGetBlockByHashResponse, FramedLength(block) + 1,
                   <<1>> \o BufferWithMetadata(block), Memoized(block))
      ELSE Message(OpGetBlockByHashResponse, 1, <<0>>, NoBlockObject)

CreateReadBlocksInMinute(timestamp) ==
    Message(OpGetBlocksInMinute, 8, PutLittleEndian(timestamp, 8), NoBlockObject)

\* The blocks of a list written one after the other with their metadata.
RECURSIVE BlocksWithMetadata(_)
BlocksWithMetadata(blocks) ==
    IF blocks = <<>> THEN <<>>
    ELSE BufferWithMetadata(Head(blocks)) \o BlocksWithMetadata(Tail(blocks))

CreateReadBlocksInMinuteResponse(timestamp, blocks) ==
    LET data == PutLittleEndian(timestamp, 8)
                    \o PutLittleEndian(Len(blocks), 4)
                    \o BlocksWithMetadata(blocks)
    IN Message(OpReadBlocksInMinuteResponse, Len(data), data, NoBlockObject)

CreateWriteBlock(block) ==
    Message(OpWriteBlock, FramedLength(block), BufferWithMetadata(block),
            Memoized(block))

CreateWriteBlockResponseMessage(accepted, previousHash, difficulty) ==
    Message(OpWriteBlockResponse, 1 + 2 * Big32Len,
            <<Flag(accepted)>> \o BigEndian(previousHash, Big32Len)
                \o BigEndian(difficulty, Big32Len),
            NoBlockObject)

\* CreateWriteChunk: datalen is the length of the chunk, data holds that
\* length on two bytes and the chunk.
CreateWriteChunk(data, datalen) ==
    Message(OpWriteChunk, datalen,
            PutLittleEndian(datalen, 2) \o SubSeq(data, 1, datalen),
            NoBlockObject)

CreateWriteChunkResponseMessage(accepted) ==
    Message(OpWriteChunkResponse, 1, <<Flag(accepted)>>, NoBlockObject)

\* message.Write into a bytes.Buffer: the opcode, and when datalen is not 0
\* the whole of data.
Write(m) == <<m.opcode>> \o (IF m.datalen = 0 THEN <<>> ELSE m.data)

\* What a handler returns: an error or a message, and what is left in the
\* reader.
Failed(rest) == [err |-> TRUE, msg |-> NoMessage, rest |-> rest]
Handled(m, rest) == [err |-> FALSE, msg |-> m, rest |-> rest]

handleGetMiningInfoRequest(opcode, reader) ==
    Handled(Message(opcode, 0, <<>>, NoBlockObject), reader)

\* readCount: a fixed number of bytes as the data of the message.
readCount(opcode, reader, datalength) ==
    LET data == Read(reader, datalength)
    IN IF data.err THEN Failed(data.rest)
       ELSE Handled(Message(opcode, datalength, data.bytes, NoBlockObject),
                    data.rest)

handleGetMiningInfoResponse(opcode, reader) ==
    readCount(opcode, reader, 2 * Big32Len)

handleGetBlockByHash(opcode, reader) == readCount(opcode, reader, Big32Len)

\* handleGetBlockByHashResponse: the flag is read, its error ignored; the
\* block is read and datalen and data are set only when the flag is 1.
handleGetBlockByHashResponse(opcode, reader) ==
    LET b == Read(reader, 1)
        read == ReadBlock(b.rest)
    IN IF b.bytes[1] = 1
         THEN IF read.err THEN Failed(read.rest)
              ELSE Handled(Message(opcode, FramedLength(read.block) + 1,
                                   <<1>> \o BufferWithMetadata(read.block),
                                   read.block),
                           read.rest)
         ELSE Handled(Message(0, 0, <<>>, NoBlockObject) @@ [opcode |-> opcode],
                      b.rest)

\* handleReadBlocksInMinute: datalen and data are set; the opcode of the
\* request is left at the zero of its type.
handleReadBlocksInMinute(opcode, reader) ==
    LET timestamp == Read(reader, 8)
    IN IF timestamp.err THEN Failed(timestamp.rest)
       ELSE Handled(Message(0, 8, timestamp.bytes, NoBlockObject),
                    timestamp.rest)

\* The blocks read one by one by handleReadBlocksInMinuteResponse.
RECURSIVE ReadBlocks(_, _)
ReadBlocks(reader, remaining) ==
    IF remaining = 0 THEN [err |-> FALSE, blocks |-> <<>>, rest |-> reader]
    ELSE LET read == ReadBlock(reader)
             others == ReadBlocks(read.rest, remaining - 1)
         IN IF read.err
              THEN [err |-> TRUE, blocks |-> <<>>, rest |-> read.rest]
              ELSE [others EXCEPT !.blocks = <<read.block>> \o others.blocks]

handleReadBlocksInMinuteResponse(opcode, reader) ==
    LET timestamp == Read(reader, 8)
        countBytes == Read(timestamp.rest, 4)
        read == ReadBlocks(countBytes.rest, LittleEndian(countBytes.bytes))
        data == timestamp.bytes \o countBytes.bytes
                    \o BlocksWithMetadata(read.blocks)
    IN IF read.err THEN Failed(read.rest)
       ELSE Handled(Message(opcode, Len(data), data, NoBlockObject), read.rest)

handleWriteBlock(opcode, reader) ==
    LET read == ReadBlock(reader)
    IN IF read.err THEN Failed(read.rest)
       ELSE Handled(Message(opcode, FramedLength(read.block),
                            BufferWithMetadata(read.block), read.block),
                    read.rest)

handleWriteBlockResponse(opcode, reader) ==
    readCount(opcode, reader, 1 + 2 * Big32Len)

handleWriteChunk(opcode, reader) ==
    LET datalenBuffer == Read(reader, 2)
        data == Read(datalenBuffer.rest, LittleEndian(datalenBuffer.bytes))
    IN IF datalenBuffer.err THEN Failed(datalenBuffer.rest)
       ELSE IF data.err THEN Failed(data.rest)
       ELSE Handled(CreateWriteChunk(data.bytes, LittleEndian(datalenBuffer.bytes)),
                    data.rest)

handleWriteChunkResponse(opcode, reader) ==
    LET accepted == Read(reader, 1)
    IN IF accepted.err THEN Failed(accepted.rest)
       ELSE Handled(CreateWriteChunkResponseMessage(accepted.bytes[1] = 1),
                    accepted.rest)

\* message.ReadMessage: the opcode is read and the handler of the opcode is
\* called; an opcode without a handler is an error.
ReadMessage(reader) ==
    LET opcode == Read(reader, 1)
        code == opcode.bytes[1]
        rest == opcode.rest
    IN IF opcode.err THEN Failed(rest)
       ELSE CASE code = OpGetMiningInfo -> handleGetMiningInfoRequest(code, rest)
              [] code = OpGetMiningInfoResponse -> handleGetMiningInfoResponse(code, rest)
              [] code = OpGetBlockWithHash -> handleGetBlockByHash(code, rest)
              [] code = OpGetBlockByHashResponse -> handleGetBlockByHashResponse(code, rest)
              [] code = OpGetBlocksInMinute -> handleReadBlocksInMinute(code, rest)
              [] code = OpReadBlocksInMinuteResponse -> handleReadBlocksInMinuteResponse(code, rest)
              [] code = OpWriteBlock -> handleWriteBlock(code, rest)
              [] code = OpWriteBlockResponse -> handleWriteBlockResponse(code, rest)
              [] code = OpWriteChunk -> handleWriteChunk(code, rest)
              [] code = OpWriteChunkResponse -> handleWriteChunkResponse(code, rest)
              [] OTHER -> Failed(rest)

\* The blocks carried by the messages: built by CreateBlock, not yet hashed.
MessageBlocks ==
    {[buffer |-> CreateBlockImage(previousHash, One, now, chunkList),
      hash |-> Zero,
      bufferDirty |-> TRUE] :
        previousHash \in PrevPool, now \in TimePool,
        chunkList \in {<< <<7>> >>, << <<>>, <<8, 9>> >>}}

\* The lists of blocks of a ReadBlocksInMinuteResponse.
BlockLists ==
    {<<>>} \cup {<<block>> : block \in MessageBlocks}
           \cup {<<MemoizedOnce, block>> : MemoizedOnce \in {Memoized(b) : b \in MessageBlocks},
                                           block \in MessageBlocks}

\* The chunks of a WriteChunk.
ChunkPool == {<<>>, <<7>>, <<8, 9>>}

MessageInit ==
    /\ LedgerHostBoot
    /\ DifficultyCallOff
    /\ GatewayBoot
    /\ BlockHarnessOff
    /\ written = NoMessage
    /\ wire = <<>>
    /\ received = [err |-> FALSE, msg |-> NoMessage]
    /\ mop = "idle"
    /\ LockHarnessOff
    /\ ValidityHarnessOff

\* The messages given to Write: of each of the ten kinds, from their
\* constructors.
Messages ==
    {CreateGetMiningInfoRequest}
    \cup {CreateGetMiningInfoResponseMessage(previousHash, difficulty) :
              previousHash \in PrevPool, difficulty \in {One, DifficultyFactor}}
    \cup {CreateGetBlockByHashRequest(hash) : hash \in PrevPool}
    \cup {CreateGetBlockByHashResponse(block) :
              block \in MessageBlocks \cup {NoBlockObject}}
    \cup {CreateReadBlocksInMinute(timestamp) : timestamp \in TimePool}
    \cup {CreateReadBlocksInMinuteResponse(timestamp, blocks) :
              timestamp \in TimePool, blocks \in BlockLists}
    \cup {CreateWriteBlock(block) : block \in MessageBlocks}
    \cup {CreateWriteBlockResponseMessage(accepted, previousHash, difficulty) :
              accepted \in BOOLEAN, previousHash \in PrevPool,
              difficulty \in {One, DifficultyFactor}}
    \cup {CreateWriteChunk(data, Len(data)) : data \in ChunkPool}
    \cup {CreateWriteChunkResponseMessage(accepted) : accepted \in BOOLEAN}

\* A message is created.
Created(m) ==
    /\ mop = "idle"
    /\ written' = m
    /\ mop' = "created"
    /\ UNCHANGED <<wire, received, outsideMessage>>

\* message.Write on an empty bytes.Buffer.
CallWrite ==
    /\ mop = "created"
    /\ wire' = Write(written)
    /\ mop' = "written"
    /\ UNCHANGED <<written, received, outsideMessage>>

\* message.ReadMessage on the bytes written.
CallReadMessage ==
    /\ mop = "written"
    /\ received' = [err |-> ReadMessage(wire).err, msg |-> ReadMessage(wire).msg]
    /\ wire' = ReadMessage(wire).rest
    /\ mop' = "read"
    /\ UNCHANGED <<written, outsideMessage>>

MessageNext ==
    \/ \E m \in Messages : Created(m)
    \/ CallWrite
    \/ CallReadMessage

MessageSpec == MessageInit /\ [][MessageNext]_vars

\* ------------------------------------------------- the locks of the files
\* The paths handled and the tasks that handle them.
FilePaths == {"a", "b"}
Tasks == 1..TaskCount
NoFileLock == 0

\* No task holds a mutex.
NoTask == 0

LockInit ==
    /\ LedgerHostBoot
    /\ DifficultyCallOff
    /\ GatewayBoot
    /\ BlockHarnessOff
    /\ MessageHarnessOff
    /\ ValidityHarnessOff
    /\ filelocks = [path \in FilePaths |-> NoFileLock]
    /\ filelocksMutex = [writer |-> NoTask, readers |-> {}]
    /\ mutexes = <<>>
    /\ tpc = [t \in Tasks |-> "idle"]
    /\ tpath = [t \in Tasks |-> "a"]
    /\ tlock = [t \in Tasks |-> NoFileLock]
    /\ raced = FALSE

\* HandleFileAtomicallyIfFound is called by a task with a path.
CallHandleFileAtomically(t, path) ==
    /\ tpc[t] = "idle"
    /\ tpc' = [tpc EXCEPT ![t] = "getExistingFileLock"]
    /\ tpath' = [tpath EXCEPT ![t] = path]
    /\ tlock' = [tlock EXCEPT ![t] = NoFileLock]
    /\ UNCHANGED <<filelocks, filelocksMutex, mutexes, raced, outsideLock>>

\* getExistingFileLock: filelocksMutex.RLock(), when no task writes.
RLock(t) ==
    /\ tpc[t] = "getExistingFileLock"
    /\ filelocksMutex.writer = NoTask
    /\ filelocksMutex' = [filelocksMutex EXCEPT !.readers = @ \cup {t}]
    /\ tpc' = [tpc EXCEPT ![t] = "reading"]
    /\ UNCHANGED <<filelocks, mutexes, tpath, tlock, raced, outsideLock>>

\* getExistingFileLock: the lock of the path if it is in the map, RUnlock;
\* getFileLock returns it or goes on to createFileLock.
getExistingFileLock(t) ==
    /\ tpc[t] = "reading"
    /\ filelocksMutex' = [filelocksMutex EXCEPT !.readers = @ \ {t}]
    /\ IF filelocks[tpath[t]] # NoFileLock
         THEN /\ tlock' = [tlock EXCEPT ![t] = filelocks[tpath[t]]]
              /\ tpc' = [tpc EXCEPT ![t] = "Lock"]
         ELSE /\ tpc' = [tpc EXCEPT ![t] = "createFileLock"]
              /\ UNCHANGED tlock
    /\ UNCHANGED <<filelocks, mutexes, tpath, raced, outsideLock>>

\* createFileLock: filelocksMutex.Lock(), when no task reads or writes.
WLock(t) ==
    /\ tpc[t] = "createFileLock"
    /\ filelocksMutex.writer = NoTask
    /\ filelocksMutex.readers = {}
    /\ filelocksMutex' = [filelocksMutex EXCEPT !.writer = t]
    /\ tpc' = [tpc EXCEPT ![t] = "creating"]
    /\ UNCHANGED <<filelocks, mutexes, tpath, tlock, raced, outsideLock>>

\* A new lock is made and put in the map, whatever the map holds.
createFileLockWithoutCheck(t) ==
    /\ tpc[t] = "creating"
    /\ mutexes' = Append(mutexes, NoTask)
    /\ filelocks' = [filelocks EXCEPT ![tpath[t]] = Len(mutexes) + 1]
    /\ tlock' = [tlock EXCEPT ![t] = Len(mutexes) + 1]
    /\ raced' = (raced \/ filelocks[tpath[t]] # NoFileLock)
    /\ filelocksMutex' = [filelocksMutex EXCEPT !.writer = NoTask]
    /\ tpc' = [tpc EXCEPT ![t] = "Lock"]
    /\ UNCHANGED <<tpath, outsideLock>>

\* createFileLock with the map locked: the lock of the path if another task
\* put it there meanwhile, else a new lock, put in the map; Unlock.
createFileLock(t) ==
    /\ tpc[t] = "creating"
    /\ IF filelocks[tpath[t]] # NoFileLock
         THEN /\ tlock' = [tlock EXCEPT ![t] = filelocks[tpath[t]]]
              /\ raced' = TRUE
              /\ UNCHANGED <<filelocks, mutexes>>
         ELSE /\ mutexes' = Append(mutexes, NoTask)
              /\ filelocks' = [filelocks EXCEPT ![tpath[t]] = Len(mutexes) + 1]
              /\ tlock' = [tlock EXCEPT ![t] = Len(mutexes) + 1]
              /\ UNCHANGED raced
    /\ filelocksMutex' = [filelocksMutex EXCEPT !.writer = NoTask]
    /\ tpc' = [tpc EXCEPT ![t] = "Lock"]
    /\ UNCHANGED <<tpath, outsideLock>>

\* lock.Lock() on the lock that getFileLock returned, when no task holds it.
Lock(t) ==
    /\ tpc[t] = "Lock"
    /\ mutexes[tlock[t]] = NoTask
    /\ mutexes' = [mutexes EXCEPT ![tlock[t]] = t]
    /\ tpc' = [tpc EXCEPT ![t] = "locked"]
    /\ UNCHANGED <<filelocks, filelocksMutex, tpath, tlock, raced, outsideLock>>

\* The file is not found and notFoundCallback is given, or the file is
\* opened: the task is in a callback.
EnterCallback(t) ==
    /\ tpc[t] = "locked"
    /\ tpc' = [tpc EXCEPT ![t] = "callback"]
    /\ UNCHANGED <<filelocks, filelocksMutex, mutexes, tpath, tlock, raced,
                   outsideLock>>

\* os.OpenFile fails: the error is returned and the deferred Unlock runs.
OpenFileFails(t) ==
    /\ tpc[t] = "locked"
    /\ mutexes' = [mutexes EXCEPT ![tlock[t]] = NoTask]
    /\ tpc' = [tpc EXCEPT ![t] = "idle"]
    /\ UNCHANGED <<filelocks, filelocksMutex, tpath, tlock, raced, outsideLock>>

\* The callback returns and the deferred Unlock runs.
ReturnFromCallback(t) ==
    /\ tpc[t] = "callback"
    /\ mutexes' = [mutexes EXCEPT ![tlock[t]] = NoTask]
    /\ tpc' = [tpc EXCEPT ![t] = "idle"]
    /\ UNCHANGED <<filelocks, filelocksMutex, tpath, tlock, raced, outsideLock>>

LockNext ==
    \E t \in Tasks :
        \/ \E path \in FilePaths : CallHandleFileAtomically(t, path)
        \/ RLock(t)
        \/ getExistingFileLock(t)
        \/ WLock(t)
        \/ createFileLock(t)
        \/ Lock(t)
        \/ EnterCallback(t)
        \/ OpenFileFails(t)
        \/ ReturnFromCallback(t)

LockSpec == LockInit /\ [][LockNext]_vars

\* ------------------------------- the validity of a hash at a difficulty
\* The hashes and the difficulties tested: the least and the greatest values
\* of a Big32, and values about the half.
HashInputs ==
    {Zero, One, 2, Big32Modulus \div 2 - 1, Big32Modulus \div 2,
     Big32Modulus - 1}
ValidityDifficulties ==
    {One, 2, 3, Big32Modulus \div 2, Big32Modulus - 2, Big32Modulus - 1}

ValidityInit ==
    /\ LedgerHostBoot
    /\ DifficultyCallOff
    /\ GatewayBoot
    /\ BlockHarnessOff
    /\ MessageHarnessOff
    /\ LockHarnessOff
    /\ candidate \in [hash : HashInputs, prev : {Zero}, ts : {30},
                       diff : ValidityDifficulties]
    /\ vpc = "set"
    /\ isValid = FALSE
    /\ previousAttempt = NoAttempt

\* Block.IsHashValidForDifficulty is called on the block.
CallIsHashValidForDifficulty ==
    /\ vpc = "set"
    /\ isValid' = IsHashValidForDifficulty(candidate)
    /\ vpc' = "returned"
    /\ UNCHANGED <<candidate, previousAttempt, outsideValidity>>

\* Another block with the same hash in its frame and another difficulty in
\* its payload is tested next.
NextCandidate(difficulty) ==
    /\ vpc = "returned"
    /\ previousAttempt' = [made |-> TRUE, diff |-> candidate.diff,
                           valid |-> isValid]
    /\ candidate' = [candidate EXCEPT !.diff = difficulty]
    /\ vpc' = "set"
    /\ UNCHANGED <<isValid, outsideValidity>>

ValidityNext ==
    \/ CallIsHashValidForDifficulty
    \/ \E difficulty \in ValidityDifficulties : NextCandidate(difficulty)

ValiditySpec == ValidityInit /\ [][ValidityNext]_vars

\* ---------------------------------------------------------------- helpers
RECURSIVE SumLen(_)
SumLen(names) ==
    IF names = {} THEN 0
    ELSE LET n == CHOOSE x \in names : TRUE
         IN Len(blockFiles[n]) + SumLen(names \ {n})

\* The number of framed blocks in the by-minute files.
TotalFrames == SumLen(FileNames)

\* The framed body of block b is in the by-minute file of its timestamp.
InMinuteFile(b) ==
    \E k \in 1..Len(blockFiles[getFilename(b)]) : blockFiles[getFilename(b)][k] = b

\* The hash index holds an entry of b's hash that leads to b's frame.
InIndex(b) ==
    \E k \in 1..Len(indexFiles[getIndexPathForHash(b.hash)]) :
        LET e == indexFiles[getIndexPathForHash(b.hash)][k]
        IN /\ e.hash = b.hash
           /\ e.filename = getFilename(b)
           /\ ReadBlockAt(blockFiles[e.filename], e.pos) = b

AllFrames ==
    {blockFiles[f][k] : <<f, k>> \in
        {p \in FileNames \X (1..(MaxWrites + 1)) : p[2] <= Len(blockFiles[p[1]])}}

\* C1: the blocks admitted by the ledger host form one hash chain: the
\* previous hash of each is the hash of the block admitted just before it
\* (zero for the first), and its timestamp is not below that block's.
C1_HashChain ==
    \A i \in 1..Len(admitted) :
        /\ admitted[i].prev = (IF i = 1 THEN Zero ELSE admitted[i - 1].hash)
        /\ i > 1 => admitted[i].ts >= admitted[i - 1].ts

C1_Witness ==
    /\ Len(admitted) >= 2
    /\ admitted[2].ts > admitted[1].ts

C3_RejectionChangesNothing ==
    [][(wpc = "idle" /\ wpc' = "idle" /\ err' \in ValidationErrors)
          => UNCHANGED <<files, repoHead, chainState>>]_vars

C3_Witness ==
    /\ err \in {"prevhash", "older"}
    /\ wresp = CreateWriteBlockResponse(FALSE, previousBlockHash, currentDifficulty)
    /\ Len(admitted) >= 1

OfMinute(blocks, t) ==
    LET InMinute(block) == block.ts \div 60 = t \div 60
    IN SelectSeq(blocks, InMinute)

\* The head of the ledger host before the request the writer is handling.
HeadBefore ==
    IF wpc = "idle"
      THEN [hash |-> previousBlockHash, diff |-> currentDifficulty]
      ELSE reqHead

\* C5 (as stated): once a save is over, also one whose index write or
\* head-file write failed, every block in a by-minute file is a block the
\* head advanced to.
C5_Original ==
    wpc = "idle" => \A b \in AllFrames : \E i \in 1..Len(admitted) : admitted[i] = b

\* C5 (amended): the head advances to a block only if its body has been
\* appended to its by-minute file; a body the head did not advance to is the
\* body of the save in progress or of a save in which a file operation
\* failed, and with neither the by-minute files hold exactly the blocks the
\* head advanced to.
C5_HeadOnlyAfterBody ==
    /\ \A i \in 1..Len(admitted) : InMinuteFile(admitted[i])
    /\ previousBlockHash # Zero => \E b \in AllFrames : b.hash = previousBlockHash
    /\ TotalFrames - Len(admitted) <= ioFailures + (IF wpc = "idle" THEN 0 ELSE 1)
    /\ (wpc = "idle" /\ ioFailures = 0) =>
           /\ TotalFrames = Len(admitted)
           /\ \A b \in AllFrames : \E i \in 1..Len(admitted) : admitted[i] = b

\* A save has failed after its body was appended, and a later one succeeded:
\* the files hold one block more than the head advanced to.
C5_Witness ==
    /\ wpc = "idle"
    /\ ioFailures >= 1
    /\ Len(admitted) >= 1
    /\ previousBlockHash = admitted[Len(admitted)].hash
    /\ TotalFrames > Len(admitted)

\* C6 (as stated, at the states in which "eventually" has come: no save is
\* in progress, so nothing more will be written to the index): a lookup by
\* hash finds every block a reader has been shown by the by-minute query.
C6_Original ==
    (wpc = "idle" /\ readResp.kind = "ReadBlocksInMinute") =>
        \A k \in 1..Len(readResp.blocks) :
            LET r == GetOneWithHash(readResp.blocks[k].hash)
            IN ~r.error /\ r.block = readResp.blocks[k]

\* C7: the WriteBlockResponse of an accepted write carries the hash of the
\* submitted block and the difficulty computed for the next block, which are
\* the head after the save; the response of a rejected write carries the
\* head hash and the current difficulty of before the request, unchanged.
C7_ResponseReflectsHead ==
    [][(wresp' # wresp /\ wresp'.kind = "WriteBlockResponse") =>
          IF wresp'.accepted
            THEN /\ wresp'.new_prev_hash = cur.hash
                 /\ wresp'.new_difficulty = computeDifficulty(cur)
                 /\ wresp'.new_prev_hash = previousBlockHash'
                 /\ wresp'.new_difficulty = currentDifficulty'
                 /\ headFile'.hash = wresp'.new_prev_hash
                 /\ headFile'.diff = wresp'.new_difficulty
            ELSE /\ wresp'.new_prev_hash = HeadBefore.hash
                 /\ wresp'.new_difficulty = HeadBefore.diff
                 /\ previousBlockHash' = HeadBefore.hash
                 /\ currentDifficulty' = HeadBefore.diff]_vars

\* An accepted write answered with a difficulty that the save has changed.
C7_Witness ==
    /\ wresp.kind = "WriteBlockResponse"
    /\ wresp.accepted
    /\ Len(admitted) >= 1
    /\ wresp.new_prev_hash = admitted[Len(admitted)].hash
    /\ wresp.new_difficulty = DifficultyFactor
    /\ admitted[Len(admitted)].diff = One

\* C8 (as stated): after successful saves, GetOneWithHash of the hash of any
\* saved block returns that block.
C8_Original ==
    wpc = "idle" =>
        \A i \in 1..Len(admitted) :
            LET r == GetOneWithHash(admitted[i].hash)
            IN ~r.error /\ r.block = admitted[i]

\* C9 (as stated): a GetBlockByHash of a hash that was never saved is
\* answered, with found=0.
C9_Original ==
    (/\ readResp.kind = "GetBlockByHash"
     /\ \A k \in 1..Len(bodyLog) : bodyLog[k].hash # readResp.arg) =>
        readResp.sent /\ ~readResp.found

\* C10 (as stated, with no save in progress): GetBlocksFromMinute(t) returns
\* the admitted blocks of the minute of t in the order of their admission.
C10_Original ==
    wpc = "idle" =>
        \A t \in TimePool \cup TimeQueries :
            GetBlocksFromMinute(t) = OfMinute(admitted, t)

\* C10 (amended): GetBlocksFromMinute(t) returns exactly the blocks whose
\* body was appended to the by-minute file of the minute of t, in the order
\* of the appends, and the empty list when there is none: the admitted
\* blocks of that minute in admission order, and with them the block of a
\* save in progress or of a save that failed after the body.  With no save
\* in progress and no failed file operation it is the admitted blocks.
C10_MinuteQuery ==
    /\ \A t \in TimePool \cup TimeQueries :
          /\ GetBlocksFromMinute(t) = OfMinute(bodyLog, t)
          /\ (wpc = "idle" /\ ioFailures = 0) =>
                 GetBlocksFromMinute(t) = OfMinute(admitted, t)
    /\ readResp.kind = "ReadBlocksInMinute" =>
          \E n \in 0..Len(bodyLog) :
              readResp.blocks = OfMinute(SubSeq(bodyLog, 1, n), readResp.arg)

\* A reader asking for a second of a minute was answered the two blocks of
\* that minute, of another second, while another minute is empty.
C10_Witness ==
    /\ readResp.kind = "ReadBlocksInMinute"
    /\ Len(readResp.blocks) = 2
    /\ readResp.blocks[1] # readResp.blocks[2]
    /\ readResp.blocks[1].ts # readResp.arg
    /\ readResp.blocks = GetBlocksFromMinute(readResp.arg)
    /\ \E t \in TimePool : GetBlocksFromMinute(t) = <<>>

\* C11: a ledger host booted with no head file reports the previous hash
\* zero and the difficulty 1 until the save of a first block has completed:
\* in its memory, in every GetMiningInfo response and in the response of
\* every write it rejects or fails until then.
C11_SeedStatus ==
    (admitted = <<>> /\ wpc # "commit") =>
        /\ CurrentPreviousHash = Zero
        /\ CurrentDifficulty = One
        /\ readResp.kind = "GetMiningInfoResponse" =>
               readResp = CreateGetMiningInfoResponse(Zero, One)
        /\ wresp.kind = "WriteBlockResponse" =>
               wresp = CreateWriteBlockResponse(FALSE, Zero, One)

\* GetMiningInfo answered after a save failed at the sync of the head file,
\* which holds the hash of a block that was not admitted.
C11_Witness ==
    /\ admitted = <<>>
    /\ wpc = "idle"
    /\ headFile # NoHead
    /\ wresp.kind = "WriteBlockResponse"
    /\ readResp = CreateGetMiningInfoResponse(Zero, One)

\* C18 (as stated): a GetMiningInfo response that carries the hash of the
\* first admitted block, while it is the only one, carries the difficulty 1
\* of the boot.
C18_Original ==
    (/\ Len(admitted) = 1
     /\ wpc # "commit"
     /\ readResp.kind = "GetMiningInfoResponse"
     /\ readResp.prev_hash = admitted[1].hash) => readResp.difficulty = One

\* C18 (amended): after the first block is admitted by a freshly booted
\* ledger host, GetMiningInfo returns the hash of that block and the
\* difficulty floor(3072 / ds), ds being the whole seconds from the boot to
\* the write (1 when 0): the mined-block count is 0, a multiple of 256,
\* when the first save computes the difficulty.  The second admitted block,
\* saved at count 1, leaves the difficulty as it is.
C18_FirstBlockUpdatesDifficulty ==
    [][/\ (/\ readResp' # readResp
           /\ readResp'.kind = "GetMiningInfoResponse"
           /\ Len(admitted) = 1
           /\ wpc # "commit") =>
              LET elapsed == lastWrite - BootTime
                  ds == IF elapsed = 0 THEN 1 ELSE elapsed
              IN readResp' = CreateGetMiningInfoResponse(
                                 admitted[1].hash, (One * DifficultyFactor) \div ds)
       /\ (/\ readResp' # readResp
           /\ readResp'.kind = "GetMiningInfoResponse"
           /\ Len(admitted) = 2
           /\ wpc # "commit") =>
              readResp' = CreateGetMiningInfoResponse(
                              admitted[2].hash, admitted[2].diff)]_vars

\* GetMiningInfo answered with the difficulty 3072 after a first block that
\* was written in the second of the boot.
C18_Witness ==
    /\ Len(admitted) = 1
    /\ wpc = "idle"
    /\ lastWrite = BootTime
    /\ readResp = CreateGetMiningInfoResponse(admitted[1].hash, DifficultyFactor)

\* C19: a call of computeDifficulty at a mined-block count that is a multiple
\* of 256, when it returns, returns floor(block.difficulty * 3072 / ds), ds
\* being the whole seconds since the last write and 1 when they are 0: the
\* difficulty itself when ds = 3072, 3072 times the difficulty when ds = 1,
\* and of two such calls with the same difficulty the one with the smaller
\* ds does not return less.  At another count it returns the difficulty.
C19_DifficultyFormula ==
    dcall = "returned" =>
        LET elapsed == writeTime - lastWrite
            ds == IF elapsed = 0 THEN 1 ELSE elapsed
        IN IF minedCount % DifficultyPeriod = 0
             THEN /\ newDifficulty = (cur.diff * DifficultyFactor) \div ds
                  /\ elapsed = DifficultyFactor => newDifficulty = cur.diff
                  /\ elapsed \in {0, 1} =>
                         newDifficulty = cur.diff * DifficultyFactor
                  /\ (/\ prevCall.count >= 0
                      /\ prevCall.count % DifficultyPeriod = 0
                      /\ prevCall.new >= 0
                      /\ prevCall.diff = cur.diff) =>
                         /\ prevCall.elapsed <= elapsed =>
                                prevCall.new >= newDifficulty
                         /\ prevCall.elapsed >= elapsed =>
                                prevCall.new <= newDifficulty
             ELSE newDifficulty = cur.diff

\* At count 256 a block written 3073 seconds after the last one lowers the
\* difficulty by one, after a call with the same difficulty and one second
\* that multiplied it by 3072.
C19_Witness ==
    /\ dcall = "returned"
    /\ minedCount = DifficultyPeriod
    /\ writeTime - lastWrite = DifficultyFactor + 1
    /\ cur.diff = 2
    /\ newDifficulty = 1
    /\ prevCall.count = 0
    /\ prevCall.diff = cur.diff
    /\ prevCall.elapsed = 1
    /\ prevCall.new = 2 * DifficultyFactor

\* C20 (as stated): when the difficulty computed for the update is 2^256 or
\* more, the call returns the previous difficulty and the ledger host goes
\* on.
C20_Original ==
    (/\ dcall \in {"returned", "panicked"}
     /\ computeDifficulty(cur) >= Big32Modulus) =>
        /\ ~crashed
        /\ dcall = "returned"
        /\ newDifficulty = cur.diff

\* The block writer holds a block the ledger host has not answered: it is
\* handing it to the miners or waiting for them.
WriterHoldsBlock ==
    \/ writerStep = "StartMining"
    \/ writerState = "WaitingForMiners" /\ writerStep = "loop"

\* The blocks published by the packer and not answered by the ledger host.
BlocksInFlight == Len(blockChannel) + (IF WriterHoldsBlock THEN 1 ELSE 0)

\* C12: at most one block is in flight between the packer and the ledger
\* host.  The packer goes for a block, and publishes it, only while the
\* downstream is marked ready and nothing is in flight, and marks it not
\* ready as it publishes; the mark becomes ready only as the packer takes a
\* status update, which the writer sent at boot or after the ledger host
\* answered the block before, and no update waits while a block is in
\* flight.
C12_OneBlockInFlight ==
    [][/\ BlocksInFlight' <= 1
       /\ ppc' \in {"count", "pop", "publish"} =>
              isDownstreamReady' /\ BlocksInFlight' = 0
       /\ isDownstreamReady' => BlocksInFlight' = 0 /\ updateChannel' = <<>>
       /\ updateChannel' # <<>> => BlocksInFlight' = 0
       /\ Len(blockChannel') > Len(blockChannel) =>
              isDownstreamReady /\ ~isDownstreamReady'
       /\ (~isDownstreamReady /\ isDownstreamReady') =>
              /\ updateChannel # <<>>
              /\ updateChannel' = Tail(updateChannel)
       /\ Len(updateChannel') > Len(updateChannel) =>
              \/ writerState = "Booting"
              \/ writerStep = "respond" /\ ~WriterHoldsBlock']_vars

\* A second block waits in the block channel after the first was admitted,
\* while chunks are queued behind it.
C12_Witness ==
    /\ Len(chain) >= 1
    /\ blockChannel # <<>>
    /\ ~isDownstreamReady
    /\ count > 0

\* C13: the chunk queue never holds more than K chunks and its count is the
\* number of chunks it holds; a push while the count is K is answered
\* rejected and changes neither the chunks nor the count nor the
\* notifications, a push below K links the chunk at the tail; PopChunks on
\* an empty queue returns the empty sequence and leaves the count at 0.
C13_QueueBound ==
    [][/\ count' <= QueueCapacity
       /\ Len(chunks') = count'
       /\ (pushed' = pushed + 1 /\ count = QueueCapacity) =>
              /\ pushResp' = CreateWriteChunkResponse(pushed', FALSE)
              /\ UNCHANGED <<chunks, count, notifications>>
       /\ (pushed' = pushed + 1 /\ count < QueueCapacity) =>
              /\ chunks' = Append(chunks, pushed')
              /\ count' = count + 1
       /\ (/\ count = 0
           /\ pushed' = pushed
           /\ notifications' = notifications
           /\ lock' = lock) =>
              /\ popped' = <<>>
              /\ chunks' = <<>>
              /\ count' = 0]_vars

\* The push after K consecutive accepted ones was rejected, PopChunks
\* returned the K chunks and a second PopChunks, on the empty queue,
\* returned none.
C13_Witness ==
    /\ pushResp = CreateWriteChunkResponse(QueueCapacity + 1, FALSE)
    /\ Len(packed) = QueueCapacity
    /\ popped = <<>>
    /\ count = 0
    /\ chunks = <<>>

\* C14 (as stated): no state is reachable in which a pusher, holding the
\* lock of the queue, is blocked on the notifications channel while the
\* packer waits for that lock in Count.
C14_Original == ~(lock = "pusher" /\ ppc = "count")

\* The chunk of a pusher that waits to send its notification: linked at the
\* tail, not yet answered.
Unanswered == IF lock = "pusher" THEN <<chunks[Len(chunks)]>> ELSE <<>>

\* The blocks of the gateway: built, published, handed to the miners, mined
\* or admitted.
GatewayBlocks ==
    {pblock, currentMiningRequest}
        \cup {blockChannel[i] : i \in 1..Len(blockChannel)}
        \cup {responseChannel[i] : i \in 1..Len(responseChannel)}
        \cup {minerRequest[m] : m \in Miners}
        \cup {chain[i] : i \in 1..Len(chain)}

\* A run of consecutive elements of a sequence.
IsRunOf(run, sequence) ==
    \/ run = <<>>
    \/ \E from \in 0..(Len(sequence) - Len(run)) :
           \A i \in 1..Len(run) : run[i] = sequence[from + i]

\* C15: the entries of a block the packer builds are the chunks of the queue
\* at the time of PopChunks, in their order, and the queue is left empty; the
\* entries of the blocks built so far, block after block, followed by the
\* chunks in the queue, are the chunks of the accepted pushes in the order
\* of their acceptance, each once; the entries of every block downstream are
\* a run of consecutive accepted chunks.
C15_ArrivalOrder ==
    /\ [][(ppc = "pop" /\ ppc' = "publish") =>
              /\ pblock'.entries = chunks
              /\ chunks' = <<>>
              /\ packed' = packed \o chunks]_vars
    /\ [](/\ packed \o chunks = acceptedChunks \o Unanswered
          /\ \A i \in 1..(Len(acceptedChunks) - 1) :
                 acceptedChunks[i] < acceptedChunks[i + 1]
          /\ \A entries \in {block.entries : block \in GatewayBlocks} :
                 IsRunOf(entries, packed))

\* Two blocks were built, the first with more than one chunk, after a push
\* was rejected, and the first was admitted.
C15_Witness ==
    /\ Len(chain) >= 1
    /\ Len(chain[1].entries) >= 2
    /\ Len(packed) > Len(chain[1].entries)
    /\ Len(acceptedChunks) < pushed
    /\ lock = "free"

\* The chunks of a block.
EntriesOf(block) == {block.entries[i] : i \in 1..Len(block.entries)}

\* The chunks that are on their way to the ledger: in the queue, in the block
\* the packer has built, in the block channel, or in the block the writer
\* holds for the miners, which the ledger host has not answered.
OnTheWay ==
    EntriesOf([entries |-> chunks])
        \cup EntriesOf(pblock)
        \cup UNION {EntriesOf(blockChannel[i]) : i \in 1..Len(blockChannel)}
        \cup (IF WriterHoldsBlock THEN EntriesOf(currentMiningRequest) ELSE {})

\* The chunks of the admitted blocks.
Admitted == UNION {EntriesOf(chain[i]) : i \in 1..Len(chain)}

\* C16 (as stated, in the form a finite run refutes): a chunk answered
\* accepted=1 is in an admitted block or still on its way to one; a chunk
\* that is neither can no longer be admitted.
C16_Original ==
    \A i \in 1..Len(acceptedChunks) :
        acceptedChunks[i] \in Admitted \cup OnTheWay

\* The miners that are in the Mining state.
MiningMiners == {m \in Miners : minerState[m] = "Mining"}

\* C17: every miner in the Mining state works on a copy of the block the
\* writer dispatched last, so no two miners mine different blocks, and every
\* miner is Idle when the writer takes a new block to dispatch.
C17_OneBlockMined ==
    [][/\ \A m \in MiningMiners' :
              minerRequest'[m] = CreateBlockFromBuffer(currentMiningRequest')
       /\ \A m, n \in MiningMiners' : minerRequest'[m] = minerRequest'[n]
       /\ currentMiningRequest' # currentMiningRequest =>
              /\ MiningMiners = {}
              /\ MiningMiners' = {}]_vars

\* Every miner mines the second block of the writer, after the first one was
\* admitted and the miners were stopped.
C17_Witness ==
    /\ MiningMiners = Miners
    /\ Len(chain) >= 1
    /\ writerState = "WaitingForMiners"
    /\ currentMiningRequest.entries # chain[1].entries

\* C25: the packer sends a block on the block channel only while the
\* downstream is marked ready, and the block has at least one chunk; a block
\* sent after a notification has at least ChunkThreshold chunks.  The packer
\* goes from the count to PopChunks only with a count of at least one, and
\* of at least ChunkThreshold after a notification.
C25_PublishConditions ==
    [][/\ Len(blockChannel') > Len(blockChannel) =>
              /\ isDownstreamReady
              /\ blockChannel' = Append(blockChannel, pblock)
              /\ Len(pblock.entries) >= 1
              /\ ~ignoreThreshold => Len(pblock.entries) >= ChunkThreshold
       /\ (ppc = "count" /\ ppc' = "pop") =>
              /\ isDownstreamReady
              /\ count >= 1
              /\ ~ignoreThreshold => count >= ChunkThreshold]_vars

\* A block of ChunkThreshold chunks or more goes out after a notification,
\* after a first block of fewer chunks that went out on a tick.
C25_Witness ==
    /\ ppc = "publish"
    /\ ~ignoreThreshold
    /\ Len(pblock.entries) >= ChunkThreshold
    /\ isDownstreamReady
    /\ Len(chain) >= 1
    /\ Len(chain[1].entries) < ChunkThreshold

\* C26: a miner sends one block for a mining request and is Idle: the blocks
\* in the response channel and the miners still mining are never more than
\* the miners, and a send finds the channel, of capacity MinerCount, with a
\* free place.
C26_ResponseChannelBound ==
    [][/\ Len(responseChannel') + Cardinality(MiningMiners') <= MinerCount
       /\ Len(responseChannel') > Len(responseChannel) =>
              /\ Len(responseChannel) < MinerCount
              /\ Len(responseChannel') = Len(responseChannel) + 1
              /\ \E m \in Miners :
                     /\ minerState[m] = "Mining"
                     /\ minerState' = [minerState EXCEPT ![m] = "Idle"]]_vars

\* Every miner has sent its block before the writer received one.
C26_Witness ==
    /\ Len(responseChannel) = MinerCount
    /\ MiningMiners = {}
    /\ writerState = "WaitingForMiners"

\* C28: in one process of the ledger host the mined-block count is the
\* number of the blocks admitted: it grows by one when a block is admitted
\* and at no other step, a rejection leaves it and the difficulty as they
\* are.  The block admitted at a count that is a multiple of 256, the first
\* one at count 0 included, sets the difficulty to
\* floor(block.difficulty * 3072 / ds); a block admitted at another count
\* sets it to its own difficulty.
C28_DifficultySchedule ==
    [][/\ minedCount' = Len(admitted')
       /\ minedCount' # minedCount =>
              /\ minedCount' = minedCount + 1
              /\ admitted' = Append(admitted, cur)
              /\ wresp'.kind = "WriteBlockResponse"
              /\ wresp'.accepted
              /\ LET elapsed == writeTime - lastWrite
                     ds == IF elapsed = 0 THEN 1 ELSE elapsed
                 IN currentDifficulty' =
                        IF minedCount % DifficultyPeriod = 0
                          THEN (cur.diff * DifficultyFactor) \div ds
                          ELSE cur.diff
       /\ (/\ wresp' # wresp
           /\ wresp'.kind = "WriteBlockResponse"
           /\ ~wresp'.accepted) =>
              /\ minedCount' = minedCount
              /\ currentDifficulty' = currentDifficulty]_vars

\* The second block, admitted at count 1 in the second of the first, leaves
\* the difficulty at its own, where the formula gives 3072 times as much.
C28_Witness ==
    /\ wpc = "idle"
    /\ minedCount = 2
    /\ Len(admitted) = 2
    /\ admitted[2].diff = DifficultyFactor
    /\ currentDifficulty = DifficultyFactor
    /\ wresp.kind = "WriteBlockResponse"
    /\ wresp.accepted

\* C24 (as stated, in the form a finite run refutes): while the writer waits
\* for the miners, after failed writes as well, an event that makes it send
\* the block again is still to come: a mined block is in the response
\* channel or a miner is mining the block.
C24_Original ==
    (writerState = "WaitingForMiners" /\ writerStep = "loop") =>
        (responseChannel # <<>> \/ MiningMiners # {})

\* C23 (as stated): CreateBlock fails for a list of 256 chunks or more, and
\* the entry count of a block it builds is the number of the chunks given.
C23_Original ==
    bop \notin {"off", "drawn"} =>
        IF Len(givenChunks) >= Uint8Modulus
          THEN bop = "failed"
          ELSE bop # "failed" => EntryCount(subject.buffer) = Len(givenChunks)

\* C22: the block that ReadBlock makes of what WriteWithMetadata wrote has
\* the bytes of the buffer of the block written and its hash, which is the
\* hash of those bytes, the same previous hash and the same entries in the
\* same order; nothing of what was written is left unread.
C22_FramedRoundTrip ==
    bop = "ReadBlock" =>
        /\ block2.buffer = subject.buffer
        /\ ~subject.bufferDirty
        /\ block2.hash = subject.hash
        /\ block2.hash = Sum256(subject.buffer)
        /\ Memoized(block2).hash = Memoized(subject).hash
        /\ PreviousHashOf(block2.buffer) = givenPreviousHash
        /\ ChunkEntries(block2.buffer) = ChunkEntries(subject.buffer)
        /\ Len(givenChunks) < Uint8Modulus =>
               ChunkEntries(block2.buffer) = givenChunks
        /\ stream = <<>>

\* A block of two entries, with a nonce drawn and never hashed before it was
\* written, has been read back.
C22_Witness ==
    /\ bop = "ReadBlock"
    /\ Len(givenChunks) = 2
    /\ NonceOf(block2.buffer) # 0
    /\ hashes = <<>>
    /\ block2.hash # Zero

\* C30: every value that Hash() returned since the last mutation of a block
\* built by CreateBlock is the Sum256 of the bytes the block has now, and
\* the hash kept in a block whose buffer is not dirty is that same value.
C30_HashOfCurrentBytes ==
    bop \in Built \cup {"WriteWithMetadata", "ReadBlock"} =>
        /\ \A i \in 1..Len(hashes) : hashes[i] = Sum256(subject.buffer)
        /\ ~subject.bufferDirty => subject.hash = Sum256(subject.buffer)

\* Hash() has been called twice in a row on a block that was mutated after
\* an earlier hash had been memoized.
C30_Witness ==
    /\ bop = "Hash"
    /\ Len(hashes) = 2
    /\ invalidated
    /\ NonceOf(subject.buffer) # 0

\* C21 (as stated): a message of any of the ten kinds, written and read back
\* by ReadMessage, is read without error and has the opcode, the length, the
\* data and the block of the message written.
C21_Original ==
    mop = "read" =>
        /\ ~received.err
        /\ received.msg.opcode = written.opcode
        /\ received.msg.datalen = written.datalen
        /\ received.msg.data = written.data
        /\ received.msg.block.buffer = written.block.buffer
        /\ Memoized(received.msg.block).hash = Memoized(written.block).hash

\* The tasks that hold the lock of the path they handle.
Holding == {t \in Tasks : tpc[t] \in {"locked", "callback"}}

\* C29: two tasks never hold the lock of the same path together, so at most
\* one is in the callback for a path; every task that got a lock for a path
\* got the one mutex the map holds for that path, also when it raced with
\* another task to create it; two paths never share a mutex, a task in its
\* callback holds no lock of the map, and a task that waits for the lock of
\* a path finds it free unless a task handling that same path holds it.
C29_OneTaskPerPath ==
    /\ \A t, u \in Holding : t # u => tpath[t] # tpath[u]
    /\ \A t \in Tasks :
           tpc[t] \in {"Lock", "locked", "callback"} =>
               /\ tlock[t] # NoFileLock
               /\ tlock[t] = filelocks[tpath[t]]
               /\ t \notin filelocksMutex.readers
               /\ filelocksMutex.writer # t
    /\ \A path, other \in FilePaths :
           (path # other /\ filelocks[path] # NoFileLock) =>
               filelocks[path] # filelocks[other]
    /\ \A t \in Tasks :
           (tpc[t] = "Lock" /\ \A u \in Holding : tpath[u] # tpath[t]) =>
               mutexes[tlock[t]] = NoTask

\* Two tasks raced to create the lock of a path: one is in its callback and
\* the other waits for the same mutex, while a third task is in its callback
\* for another path.
C29_Witness ==
    /\ raced
    /\ \E t, u, v \in Tasks :
           /\ tpc[t] = "callback" /\ tpath[t] = "a"
           /\ tpc[u] = "Lock" /\ tpath[u] = "a" /\ tlock[u] = tlock[t]
           /\ tpc[v] = "callback" /\ tpath[v] = "b"

\* C27 (as stated): once the stop signal is delivered and until the service
\* is done, a task of the pipeline or Run can take a step, so the packer,
\* the miners and the writer get to finish; and when the service is done no
\* task is left blocked on a channel.
C27_Original ==
    /\ svcStep \notin {"running", "done"} => ENABLED PipelineStep
    /\ svcStep = "done" => lock # "pusher"


\* The bytes the entries of a list take in a buffer: two for the length of
\* each chunk, and its data.
RECURSIVE EntriesLength(_, _, _)
EntriesLength(chunkList, first, last) ==
    IF first > last THEN 0
    ELSE IF first = last THEN 2 + Len(chunkList[first])
    ELSE LET middle == (first + last) \div 2
         IN EntriesLength(chunkList, first, middle)
                + EntriesLength(chunkList, middle + 1, last)

\* C31: a block built by CreateBlock from at most 255 chunks, mutated and
\* hashed or not since, has an entry count equal to the number of the chunks
\* given and to the number of the chunks its iterator yields; the iterator
\* yields the chunks given, with their lengths and their bytes, in their
\* order; and the buffer is as long as the header plus, for each chunk, two
\* bytes and its data.
C31_EntriesAsGiven ==
    (bop \in Built /\ Len(givenChunks) < Uint8Modulus) =>
        /\ EntryCount(subject.buffer) = Len(givenChunks)
        /\ Len(ChunkEntries(subject.buffer)) = EntryCount(subject.buffer)
        /\ ChunkEntries(subject.buffer) = givenChunks
        /\ Len(subject.buffer) =
               OffsetData + EntriesLength(givenChunks, 1, Len(givenChunks))

\* A block of two chunks of different lengths was built, then given a nonce.
C31_Witness ==
    /\ bop = "GenerateNonce"
    /\ Len(givenChunks) = 2
    /\ Len(givenChunks[1]) # Len(givenChunks[2])
    /\ Len(subject.buffer) = OffsetData + 7


\* C32: the validity of a hash at a difficulty accepts every hash at the
\* difficulty 1; at the greatest difficulty it accepts the hashes 0 and 1 and
\* no other; and a hash found valid at a difficulty is valid at every
\* difficulty from 1 up to that one.
C32_ValidityMonotone ==
    vpc = "returned" =>
        /\ candidate.diff = One => isValid
        /\ candidate.diff = Big32Modulus - 1 =>
               (isValid <=> candidate.hash \in {Zero, One})
        /\ (/\ previousAttempt.made
            /\ previousAttempt.valid
            /\ One <= candidate.diff
            /\ candidate.diff <= previousAttempt.diff) => isValid

\* The hash 1, valid at the greatest difficulty, was tested again at the
\* half of it.
C32_Witness ==
    /\ vpc = "returned"
    /\ candidate.hash = One
    /\ previousAttempt.made
    /\ previousAttempt.valid
    /\ previousAttempt.diff = Big32Modulus - 1
    /\ candidate.diff = Big32Modulus \div 2
    /\ isValid


\* C34 (as stated, for one update): a block admitted at a difficulty of 1 or
\* more leaves the ledger host with a current difficulty of 1 or more,
\* whatever the seconds since the last write.
C34_Original ==
    (dcall = "saved" /\ cur.diff >= One) => currentDifficulty >= One


\* C35 (as stated): when a save has succeeded and the write is answered
\* accepted, the head the repository holds in memory (hash, difficulty,
\* timestamp) is the head the head file holds.
C35_Original ==
    (wpc = "idle" /\ wresp.kind = "WriteBlockResponse" /\ wresp.accepted) =>
        /\ previousBlockHash = headFile.hash
        /\ previousBlockDifficulty = headFile.diff
        /\ previousBlockTimestamp = headFile.ts


\* The pairs (head hash, current difficulty) the ledger host has had, each
\* at one instant: at boot, after each admitted block (the difficulty a
\* block left is the one the next admitted block carries), and the pair the
\* save in progress is about to leave.
HeadPairs ==
    {<<Zero, One>>}
        \cup {<<admitted[i].hash,
                IF i < Len(admitted) THEN admitted[i + 1].diff
                ELSE currentDifficulty>> : i \in 1..Len(admitted)}
        \cup (IF wpc = "commit" THEN {<<cur.hash, newDifficulty>>} ELSE {})

\* C36 (as stated): the pair a GetMiningInfo response carries, also when the
\* request was served while a write was in progress, is a pair the ledger
\* host had at one instant.
C36_Original ==
    readResp.kind = "GetMiningInfoResponse" =>
        <<readResp.prev_hash, readResp.difficulty>> \in HeadPairs


\* The payload of a block of the ledger host: the header, with no entry.
PayloadOf(block) == CreateBlockImage(block.prev, block.diff, block.ts, <<>>)

\* C37 (as stated): every block the ledger host has admitted, and every
\* block a query by hash has returned, carries in its frame the hash of its
\* payload.
C37_Original ==
    /\ \A i \in 1..Len(admitted) :
           admitted[i].hash = Sum256(PayloadOf(admitted[i]))
    /\ (readResp.kind = "GetBlockByHash" /\ readResp.found) =>
           readResp.block.hash = Sum256(PayloadOf(readResp.block))


\* The entries of the admitted blocks, one block after the other.
RECURSIVE ChainEntries(_)
ChainEntries(blocks) ==
    IF blocks = <<>> THEN <<>>
    ELSE Head(blocks).entries \o ChainEntries(Tail(blocks))

\* C33: the block the packer sends on the block channel carries the head
\* hash and the current difficulty the ledger host has at that step, and
\* while the packer holds the downstream for ready the head it keeps is the
\* head of the ledger host, whatever responses, accepted or rejected, and
\* whatever failed or lost writes came before.
C33_PublishedAtHead ==
    [][/\ Len(blockChannel') > Len(blockChannel) =>
              /\ blockChannel'[Len(blockChannel')].prev = LedgerHead
              /\ blockChannel'[Len(blockChannel')].diff = chainDifficulty
              /\ UNCHANGED ledgerSeen
       /\ isDownstreamReady' =>
              /\ packerPreviousHash' = LedgerHead'
              /\ packerDifficulty' = chainDifficulty']_vars

\* A block waits in the block channel with the head the first admitted block
\* left, at a difficulty that block changed, after another block was given
\* up by the writer.
C33_Witness ==
    /\ Len(chain) = 1
    /\ blockChannel # <<>>
    /\ blockChannel[1].prev = LedgerHead
    /\ blockChannel[1].diff = DifficultyFactor
    /\ Len(packed) > Len(ChainEntries(chain)) + Len(blockChannel[1].entries)


\* A block is a mined copy of a request: it has its entries, its previous
\* hash and its difficulty.
MinedCopyOf(block, request) ==
    /\ block.entries = request.entries
    /\ block.prev = request.prev
    /\ block.diff = request.diff

\* C39: while the writer holds a block for the miners, every block in the
\* response channel it listens on is a mined copy of that block; the block
\* the writer takes from the channel and sends to the ledger host has the
\* entries, the previous hash and the difficulty of the block outstanding,
\* and a block the ledger host admits is that block.
C39_WritesOutstandingBlock ==
    [][/\ WriterHoldsBlock' =>
              \A i \in 1..Len(responseChannel') :
                  MinedCopyOf(responseChannel'[i], currentMiningRequest')
       /\ (/\ writerState = "WaitingForMiners"
           /\ writerStep = "loop"
           /\ Len(responseChannel') < Len(responseChannel)) =>
              /\ OfCurrentRequest(Head(responseChannel))
              /\ currentMiningRequest' = currentMiningRequest
       /\ chain' # chain =>
              /\ chain' = Append(chain, Head(responseChannel))
              /\ OfCurrentRequest(Head(responseChannel))]_vars

\* A block mined late for the first request, which was admitted, is left in
\* the response channel of that request while the next block of the packer
\* waits in the block channel.
C39_Witness ==
    /\ Len(chain) >= 1
    /\ writerState = "WaitingForBlock"
    /\ writerStep = "loop"
    /\ responseChannel # <<>>
    /\ responseChannel[1].entries = chain[1].entries
    /\ blockChannel # <<>>
    /\ blockChannel[1].entries # chain[1].entries


\* C40: no chunk is in two admitted blocks, and no chunk is twice in one: a
\* block of the packer is admitted once at most, also when several miners
\* complete its request and when a write of it failed, or was admitted with
\* its response lost, before a later completion is sent.
C40_AdmittedOnce ==
    /\ Len(ChainEntries(chain)) = Cardinality(Admitted)
    /\ \A i, j \in 1..Len(chain) :
           i # j => EntriesOf(chain[i]) \cap EntriesOf(chain[j]) = {}

\* The block of the current request was admitted, the response was lost,
\* and the completion of another miner, sent next, was rejected.
C40_Witness ==
    /\ Len(chain) >= 1
    /\ writerStep = "StopMining"
    /\ blockResponse.kind = "WriteBlockResponse"
    /\ ~blockResponse.accepted
    /\ currentMiningRequest.entries = chain[Len(chain)].entries
    /\ blockResponse.new_prev_hash = Hash(chain[Len(chain)])

\* C38: whenever the chunk queue is not empty and the downstream is ready, the
\* packer publishes a block in the end (the publication is what marks the
\* downstream as not ready), ticks arriving and the packer being scheduled.
C38_Original == (count > 0 /\ isDownstreamReady) ~> ~isDownstreamReady

\* C38, apart from the pusher blocked with the lock of the queue held: a
\* queue that is not empty with the downstream ready leads to a publication,
\* or to a packer that waits for the lock held by a pusher blocked on the
\* notifications channel.
C38_PublishesUnlessPusherBlocked ==
    (count > 0 /\ isDownstreamReady) ~>
        (~isDownstreamReady \/ (lock = "pusher" /\ ppc \in {"count", "pop"}))

\* C38, on finite runs: with chunks queued and the downstream ready, the step
\* the packer is at can be taken.
C38_PackerCanStep ==
    (count > 0 /\ isDownstreamReady) =>
        \/ ppc = "select"
        \/ ppc \in {"count", "pop"} /\ lock = "free"
        \/ ppc = "publish" /\ Len(blockChannel) < 1

====
